---- MODULE Spec2Model ----
(***************************************************************************)
(* Model of the MDS bridge protocol engine (src/src/mds_protocol.c): the   *)
(* session object, the backend dispatch of include/mds_bridge/mds_backend.h *)
(* and the stream packet processing entry points.                          *)
(***************************************************************************)
EXTENDS Integers, Naturals, Sequences, FiniteSets, TLC

(***************************************************************************)
(* Program constants                                                       *)
(***************************************************************************)
MDS_REPORT_ID_SUPPORTED_FEATURES == 1
MDS_REPORT_ID_DEVICE_IDENTIFIER == 2
MDS_REPORT_ID_DATA_URI == 3
MDS_REPORT_ID_AUTHORIZATION == 4
MDS_REPORT_ID_STREAM_CONTROL == 5
MDS_REPORT_ID_STREAM_DATA == 6
MDS_MAX_DEVICE_ID_LEN == 64
MDS_MAX_URI_LEN == 128
MDS_MAX_AUTH_LEN == 128
MDS_MAX_CHUNK_DATA_LEN == 63
MDS_STREAM_MODE_DISABLED == 0
MDS_STREAM_MODE_ENABLED == 1
MDS_SEQUENCE_MASK == 31
MDS_SEQUENCE_MAX == 31
EINVAL == 22
ENOMEM == 12
ETIMEDOUT == 110
MEMFAULT_HID_ERROR_NOT_FOUND == -2
MEMFAULT_HID_ERROR_IO == -5
MEMFAULT_HID_ERROR_TIMEOUT == -6
MEMFAULT_HID_ERROR_NO_MEM == -8
MEMFAULT_HID_ERROR_UNKNOWN == -99

(***************************************************************************)
(* Bounds of the model                                                     *)
(***************************************************************************)
MaxSessions == 2   \* session objects the caller may allocate
MaxBackends == 2   \* backend instances the caller owns at start
MaxPackets == 2    \* stream reports delivered in total (queued or pushed)
MaxBufLen == 66    \* longest stream buffer handed to the decoder
MaxDestLen == 130  \* largest destination a string accessor is given

NULL == 0
SessionIds == 1..MaxSessions
BackendIds == 1..MaxBackends

\* stream-data reports as the backend returns them (report id stripped):
\* byte 0 carries the sequence (33 = 0x21 has a reserved bit set, sequence 1),
\* the chunk payload follows
StreamBuffers == {<<0, 170>>, <<1, 187>>, <<31, 204>>, <<33>>}
\* values an upload callback may return
HookResults == {0, -5, 1}
\* registrable (callback, user_data) pairs
Hooks == {[fn |-> "cb1", ud |-> "ctx1"]}
NoHook == [fn |-> "NULL", ud |-> "NULL"]
\* device configurations a caller may pass to a processing call
Configs == {[authorization |-> "Key:a", data_uri |-> "uriA"]}

VARIABLES
  sessions,   \* heap of struct mds_session, by handle
  backends,   \* backend instances: queued input reports, destroy-op count
  last,       \* outcome of the most recent API call
  hookLog,    \* upload callback invocations, in order
  obtained,   \* packets obtained by processing calls while a hook was set
  prevSeq,    \* per session: sequence of the packet received before (-1: none)
  delivered,  \* stream reports delivered so far (queued or pushed)
  faulted,    \* the process aborted (assert / invalid memory access)
  uploader,   \* the HTTP uploader object (struct chunks_uploader)
  http,       \* HTTP requests performed: their number, their URIs, the last one
  tally,      \* uploader callback invocations and their outcomes so far
  loop        \* the gateway loop: its counters and whether it still runs

vars == <<sessions, backends, last, hookLog, obtained, prevSeq, delivered, faulted,
          uploader, http, tally, loop>>
uvars == <<uploader, http, tally, loop>>

(***************************************************************************)
(* Bit arithmetic on bytes                                                 *)
(***************************************************************************)
RECURSIVE BitAnd(_, _)
BitAnd(a, b) ==
  IF a = 0 \/ b = 0 THEN 0
  ELSE (IF (a % 2 = 1) /\ (b % 2 = 1) THEN 1 ELSE 0) + 2 * BitAnd(a \div 2, b \div 2)

RECURSIVE BitOr(_, _)
BitOr(a, b) ==
  IF a = 0 THEN b
  ELSE IF b = 0 THEN a
  ELSE (IF (a % 2 = 1) \/ (b % 2 = 1) THEN 1 ELSE 0) + 2 * BitOr(a \div 2, b \div 2)

Min(a, b) == IF a < b THEN a ELSE b

RECURSIVE Pow2(_)
Pow2(k) == IF k = 0 THEN 1 ELSE 2 * Pow2(k - 1)

\* uint32_t values, kept as two 16-bit halves
Word32(byte) == [hi |-> 0, lo |-> byte]

\* w << k on 32 bits, 0 <= k < 32: bits shifted past bit 31 are lost
Shl32(w, k) ==
  IF k >= 16
  THEN [hi |-> (w.lo * Pow2(k - 16)) % 65536, lo |-> 0]
  ELSE [hi |-> (((w.hi * Pow2(k)) % 65536) + ((w.lo * Pow2(k)) \div 65536)) % 65536,
        lo |-> (w.lo * Pow2(k)) % 65536]

Or32(v, w) == [hi |-> BitOr(v.hi, w.hi), lo |-> BitOr(v.lo, w.lo)]

(***************************************************************************)
(* Internal helpers of mds_protocol.c                                      *)
(***************************************************************************)
\* variant: byte 0 is taken whole
mds_extract_sequence_whole(byte0) == byte0

mds_extract_sequence(byte0) == BitAnd(byte0, MDS_SEQUENCE_MASK)

mds_validate_sequence_nomask(prev_seq, new_seq) == new_seq = prev_seq + 1

mds_validate_sequence(prev_seq, new_seq) ==
  LET expected == BitAnd(prev_seq + 1, MDS_SEQUENCE_MASK)
  IN  new_seq = expected

\* variant: the payload length is not clamped to the packet's data array
mds_parse_stream_packet_noclamp(buffer) ==
  IF Len(buffer) < 1
  THEN [data |-> <<>>, data_len |-> 0, ret |-> -EINVAL, sequence |-> 0]
  ELSE LET n == Len(buffer) - 1
       IN  [data |-> SubSeq(buffer, 2, n + 1),
            data_len |-> n,
            ret |-> 0,
            sequence |-> mds_extract_sequence(buffer[1])]

\* result of mds_parse_stream_packet on a non-NULL buffer
mds_parse_stream_packet(buffer) ==
  IF Len(buffer) < 1
  THEN [data |-> <<>>, data_len |-> 0, ret |-> -EINVAL, sequence |-> 0]
  ELSE LET n == Min(Len(buffer) - 1, MDS_MAX_CHUNK_DATA_LEN)
       IN  [data |-> SubSeq(buffer, 2, n + 1),
            data_len |-> n,
            ret |-> 0,
            sequence |-> mds_extract_sequence(buffer[1])]

(***************************************************************************)
(* State after construction                                                *)
(***************************************************************************)
FreeSession ==
  [backend |-> NULL,
   last_sequence |-> 0,
   state |-> "free",
   streaming_enabled |-> FALSE,
   upload_callback |-> "NULL",
   upload_user_data |-> "NULL"]

\* a session after free(): its memory is gone; the backend it was created
\* over stays on record
FreedSession(backend) == [FreeSession EXCEPT !.state = "freed", !.backend = backend]

\* op: the call; s: its session; ret: its return value; got: a packet was
\* decoded; seq: that packet's sequence; prev: sequence of the packet the
\* session received before this call; vprev: the prev_seq the packet was
\* validated against (-1: validation skipped); diag: a sequence error was
\* printed; hookCalls: upload callback invocations; hr: what the callback
\* returned (0 if it was not invoked); trace: backend operations issued;
\* wret: what the backend's write returned; rdkind: how the backend's read
\* ended ("none": no read); arg, out: further inputs and outputs of the call
NoCall ==
  [arg |-> <<>>,
   diag |-> FALSE,
   got |-> FALSE,
   hookCalls |-> <<>>,
   hr |-> 0,
   op |-> "none",
   out |-> <<>>,
   prev |-> -1,
   rdkind |-> "none",
   ret |-> 0,
   s |-> NULL,
   seq |-> -1,
   trace |-> <<>>,
   vprev |-> -1,
   wret |-> 0]

(***************************************************************************)
(* The HTTP uploader (include/mds_bridge/chunks_uploader.h)                *)
(***************************************************************************)
DEFAULT_TIMEOUT_MS == 30000
\* the negative result of a delivery that failed
UPLOAD_ERROR == -1

ZeroStats ==
  [bytes_uploaded |-> 0, chunks_uploaded |-> 0, last_http_status |-> 0,
   upload_failures |-> 0]

chunks_uploader_create ==
  [stats |-> ZeroStats, timeout_ms |-> DEFAULT_TIMEOUT_MS, verbose |-> FALSE]

\* no gateway loop is running
NoLoop ==
  [chunks_processed |-> 0, config |-> <<>>, io |-> 0, pc |-> "idle", queued |-> 0,
   timeout_code |-> 0, timeout_count |-> 0]

UploaderInit ==
  /\ loop = NoLoop
  /\ uploader = chunks_uploader_create
  /\ http = [last |-> <<>>, requests |-> 0, uris |-> <<>>]
  /\ tally = [bytes |-> 0, calls |-> 0, failed |-> 0, lens |-> {}, ok |-> 0]

\* an authorization header is a sequence of characters; position of its
\* first colon, 0 when it has none
FirstColon(h) ==
  IF \E i \in DOMAIN h : h[i] = ":"
  THEN CHOOSE i \in DOMAIN h : h[i] = ":" /\ \A j \in 1..(i - 1) : h[j] # ":"
  ELSE 0

\* any 2xx status
HttpSuccess(status) == status >= 200 /\ status < 300

\* the POST the uploader issues: the header is split at the first colon
HttpPost(up, uri, auth_header, chunk_data, chunk_len) ==
  LET c == FirstColon(auth_header)
  IN  [body |-> SubSeq(chunk_data, 1, chunk_len),
       name |-> SubSeq(auth_header, 1, c - 1),
       timeout_ms |-> up.timeout_ms,
       uri |-> uri,
       value |-> SubSeq(auth_header, c + 1, Len(auth_header))]

\* variant: the byte count is taken before the outcome is known
chunks_uploader_callback_eager(up, uri, auth_header, chunk_data, chunk_len, net) ==
  IF FirstColon(auth_header) = 0
  THEN [request |-> <<>>,
        ret |-> -EINVAL,
        uploader |-> [up EXCEPT !.stats.upload_failures = @ + 1]]
  ELSE LET req == <<HttpPost(up, uri, auth_header, chunk_data, chunk_len)>>
           status == IF net.response = <<>> THEN 0 ELSE net.response[1]
       IN  IF ~net.ok \/ ~HttpSuccess(status)
           THEN [request |-> req,
                 ret |-> UPLOAD_ERROR,
                 uploader |-> [up EXCEPT !.stats.upload_failures = @ + 1,
                                         !.stats.bytes_uploaded = @ + chunk_len,
                                         !.stats.last_http_status = status]]
           ELSE [request |-> req,
                 ret |-> 0,
                 uploader |-> [up EXCEPT !.stats.chunks_uploaded = @ + 1,
                                         !.stats.bytes_uploaded = @ + chunk_len,
                                         !.stats.last_http_status = status]]

\* variant: a delivery without a response keeps the status of the one before
chunks_uploader_callback_stale(up, uri, auth_header, chunk_data, chunk_len, net) ==
  IF FirstColon(auth_header) = 0
  THEN [request |-> <<>>,
        ret |-> -EINVAL,
        uploader |-> [up EXCEPT !.stats.upload_failures = @ + 1]]
  ELSE LET req == <<HttpPost(up, uri, auth_header, chunk_data, chunk_len)>>
           status == IF net.response = <<>> THEN up.stats.last_http_status
                     ELSE net.response[1]
       IN  IF ~net.ok \/ ~HttpSuccess(status)
           THEN [request |-> req,
                 ret |-> UPLOAD_ERROR,
                 uploader |-> [up EXCEPT !.stats.upload_failures = @ + 1,
                                         !.stats.last_http_status = status]]
           ELSE [request |-> req,
                 ret |-> 0,
                 uploader |-> [up EXCEPT !.stats.chunks_uploaded = @ + 1,
                                         !.stats.bytes_uploaded = @ + chunk_len,
                                         !.stats.last_http_status = status]]

\* variant: the header is examined only after the request was sent
chunks_uploader_callback_late(up, uri, auth_header, chunk_data, chunk_len, net) ==
  LET req == <<HttpPost(up, uri, auth_header, chunk_data, chunk_len)>>
      status == IF net.response = <<>> THEN 0 ELSE net.response[1]
  IN  IF FirstColon(auth_header) = 0
      THEN [request |-> req,
            ret |-> -EINVAL,
            uploader |-> [up EXCEPT !.stats.upload_failures = @ + 1]]
      ELSE IF ~net.ok \/ ~HttpSuccess(status)
      THEN [request |-> req,
            ret |-> UPLOAD_ERROR,
            uploader |-> [up EXCEPT !.stats.upload_failures = @ + 1,
                                    !.stats.last_http_status = status]]
      ELSE [request |-> req,
            ret |-> 0,
            uploader |-> [up EXCEPT !.stats.chunks_uploaded = @ + 1,
                                    !.stats.bytes_uploaded = @ + chunk_len,
                                    !.stats.last_http_status = status]]

\* net: how the network answers a request: ok, the transfer completed;
\* response, <<status>> of the response received, <<>> when there was none.
\* variant: a rejected header is reported but not counted
chunks_uploader_callback_uncounted(up, uri, auth_header, chunk_data, chunk_len, net) ==
  IF FirstColon(auth_header) = 0
  THEN [request |-> <<>>, ret |-> -EINVAL, uploader |-> up]
  ELSE LET req == <<HttpPost(up, uri, auth_header, chunk_data, chunk_len)>>
           status == IF net.response = <<>> THEN 0 ELSE net.response[1]
       IN  IF ~net.ok \/ ~HttpSuccess(status)
           THEN [request |-> req,
                 ret |-> UPLOAD_ERROR,
                 uploader |-> [up EXCEPT !.stats.upload_failures = @ + 1,
                                         !.stats.last_http_status = status]]
           ELSE [request |-> req,
                 ret |-> 0,
                 uploader |-> [up EXCEPT !.stats.chunks_uploaded = @ + 1,
                                         !.stats.bytes_uploaded = @ + chunk_len,
                                         !.stats.last_http_status = status]]

\* request: <<the POST>> when one was performed
chunks_uploader_callback(up, uri, auth_header, chunk_data, chunk_len, net) ==
  IF FirstColon(auth_header) = 0
  THEN [request |-> <<>>,
        ret |-> -EINVAL,
        uploader |-> [up EXCEPT !.stats.upload_failures = @ + 1]]
  ELSE LET req == <<HttpPost(up, uri, auth_header, chunk_data, chunk_len)>>
           status == IF net.response = <<>> THEN 0 ELSE net.response[1]
       IN  IF ~net.ok \/ ~HttpSuccess(status)
           THEN [request |-> req,
                 ret |-> UPLOAD_ERROR,
                 uploader |-> [up EXCEPT !.stats.upload_failures = @ + 1,
                                         !.stats.last_http_status = status]]
           ELSE [request |-> req,
                 ret |-> 0,
                 uploader |-> [up EXCEPT !.stats.chunks_uploaded = @ + 1,
                                         !.stats.bytes_uploaded = @ + chunk_len,
                                         !.stats.last_http_status = status]]

chunks_uploader_get_stats(up) == [ret |-> 0, stats |-> up.stats]

\* keep_status: the build leaves last_http_status as it is (else zeroes it)
chunks_uploader_reset_stats(up, keep_status) ==
  [up EXCEPT !.stats = [ZeroStats EXCEPT !.last_http_status =
                          IF keep_status THEN up.stats.last_http_status ELSE 0]]

\* variant: changing the timeout sets the uploader up anew
chunks_uploader_set_timeout_anew(up, timeout_ms) ==
  [chunks_uploader_create EXCEPT !.timeout_ms = timeout_ms, !.verbose = up.verbose]

chunks_uploader_set_timeout(up, timeout_ms) == [up EXCEPT !.timeout_ms = timeout_ms]

chunks_uploader_set_verbose(up, verbose) == [up EXCEPT !.verbose = verbose]

Init ==
  /\ sessions = [s \in SessionIds |-> FreeSession]
  /\ backends = [b \in BackendIds |-> [destroyed |-> 0, queue |-> <<>>]]
  /\ last = NoCall
  /\ hookLog = <<>>
  /\ obtained = <<>>
  /\ prevSeq = [s \in SessionIds |-> -1]
  /\ delivered = 0
  /\ faulted = FALSE
  /\ UploaderInit

Live(s) == sessions[s].state = "live"

(***************************************************************************)
(* Backend dispatch (mds_backend.h): outcomes of the operations table      *)
(***************************************************************************)
\* memfault_hid_read_report on the device behind a backend: the oldest queued
\* input report with its report id, an I/O failure that consumes nothing, or
\* - with nothing queued - the timeout error (bounded wait elapsed) or zero
\* bytes (non-blocking read); a device that was closed, if the access does not
\* abort, only fails
memfault_hid_read_report(bk) ==
  LET q == bk.queue
  IN  {[data |-> <<>>,
        id |-> 0,
        kind |-> "io",
        queue |-> q,
        ret |-> MEMFAULT_HID_ERROR_IO]}
      \cup (IF bk.destroyed > 0 THEN {}
            ELSE IF q # <<>>
             THEN {[data |-> Head(q),
                    id |-> MDS_REPORT_ID_STREAM_DATA,
                    kind |-> "data",
                    queue |-> Tail(q),
                    ret |-> Len(Head(q))]}
             ELSE {[data |-> <<>>,
                    id |-> 0,
                    kind |-> "timeout",
                    queue |-> q,
                    ret |-> MEMFAULT_HID_ERROR_TIMEOUT],
                   [data |-> <<>>,
                    id |-> 0,
                    kind |-> "empty",
                    queue |-> q,
                    ret |-> 0]})

\* variant: the identifier of the report read is not compared
hid_backend_read_unchecked(r, report_id) == r

\* hid_backend_read of input report 0x06: r is what memfault_hid_read_report
\* returned
hid_backend_read(r, report_id) ==
  IF r.ret > 0 /\ r.id # report_id
  THEN [r EXCEPT !.ret = MEMFAULT_HID_ERROR_IO]
  ELSE r

\* mds_backend_read of the stream-data report through the operations table
ReadOutcomes(b) ==
  {hid_backend_read(r, MDS_REPORT_ID_STREAM_DATA) :
     r \in memfault_hid_read_report(backends[b])}

\* write of a report: bytes written, or an I/O failure
WriteOutcomes(b, length) ==
  {MEMFAULT_HID_ERROR_IO} \cup (IF backends[b].destroyed > 0 THEN {} ELSE {length})

\* variant: the destroy operation is never dispatched
mds_backend_destroy_skipped(bk) == bk

\* mds_backend_destroy: one invocation of the backend's destroy operation,
\* which closes the transport and drops what is still queued
mds_backend_destroy(bk) == [bk EXCEPT !.destroyed = @ + 1, !.queue = <<>>]

(***************************************************************************)
(* Device configuration: rd is what the backend's read of the accessor's   *)
(* feature report returned (ret: byte count or negative error; data: the   *)
(* bytes it stored in the accessor's buffer)                               *)
(***************************************************************************)
FeatureRead(id) == <<[id |-> id, op |-> "read"]>>

\* byte i (from 0) of the accessor's 4-byte buffer, zero-initialised
FeatureByte(rd, i) == IF i < rd.ret /\ i < Len(rd.data) THEN rd.data[i + 1] ELSE 0

\* variant: the bytes are combined most significant first
mds_get_supported_features_bigendian(rd) ==
  IF rd.ret < 0
  THEN [features |-> Word32(0),
        ret |-> rd.ret,
        trace |-> FeatureRead(MDS_REPORT_ID_SUPPORTED_FEATURES),
        written |-> FALSE]
  ELSE IF rd.ret < 4
  THEN [features |-> Word32(0),
        ret |-> -EINVAL,
        trace |-> FeatureRead(MDS_REPORT_ID_SUPPORTED_FEATURES),
        written |-> FALSE]
  ELSE [features |-> Or32(Or32(Or32(Word32(FeatureByte(rd, 3)),
                                    Shl32(Word32(FeatureByte(rd, 2)), 8)),
                               Shl32(Word32(FeatureByte(rd, 1)), 16)),
                          Shl32(Word32(FeatureByte(rd, 0)), 24)),
        ret |-> 0,
        trace |-> FeatureRead(MDS_REPORT_ID_SUPPORTED_FEATURES),
        written |-> TRUE]

\* written: *features was assigned
mds_get_supported_features(rd) ==
  IF rd.ret < 0
  THEN [features |-> Word32(0),
        ret |-> rd.ret,
        trace |-> FeatureRead(MDS_REPORT_ID_SUPPORTED_FEATURES),
        written |-> FALSE]
  ELSE IF rd.ret < 4
  THEN [features |-> Word32(0),
        ret |-> -EINVAL,
        trace |-> FeatureRead(MDS_REPORT_ID_SUPPORTED_FEATURES),
        written |-> FALSE]
  ELSE [features |-> Or32(Or32(Or32(Word32(FeatureByte(rd, 0)),
                                    Shl32(Word32(FeatureByte(rd, 1)), 8)),
                               Shl32(Word32(FeatureByte(rd, 2)), 16)),
                          Shl32(Word32(FeatureByte(rd, 3)), 24)),
        ret |-> 0,
        trace |-> FeatureRead(MDS_REPORT_ID_SUPPORTED_FEATURES),
        written |-> TRUE]

\* variant: copies up to max_len bytes and terminates after them
mds_get_device_identifier_offbyone(rd, max_len) ==
  IF max_len = 0 THEN [ret |-> -EINVAL, str |-> <<>>, trace |-> <<>>]
  ELSE IF rd.ret < 0
  THEN [ret |-> rd.ret, str |-> <<>>,
        trace |-> FeatureRead(MDS_REPORT_ID_DEVICE_IDENTIFIER)]
  ELSE LET copy_len == IF rd.ret <= max_len THEN rd.ret ELSE max_len
       IN  [ret |-> 0, str |-> SubSeq(rd.data, 1, copy_len) \o <<0>>,
            trace |-> FeatureRead(MDS_REPORT_ID_DEVICE_IDENTIFIER)]

\* str: the bytes stored in the destination from its first byte on, the
\* terminator included (<<>>: the destination is not written)
mds_get_device_identifier(rd, max_len) ==
  IF max_len = 0 THEN [ret |-> -EINVAL, str |-> <<>>, trace |-> <<>>]
  ELSE IF rd.ret < 0
  THEN [ret |-> rd.ret, str |-> <<>>,
        trace |-> FeatureRead(MDS_REPORT_ID_DEVICE_IDENTIFIER)]
  ELSE LET copy_len == IF rd.ret < max_len THEN rd.ret ELSE max_len - 1
       IN  [ret |-> 0, str |-> SubSeq(rd.data, 1, copy_len) \o <<0>>,
            trace |-> FeatureRead(MDS_REPORT_ID_DEVICE_IDENTIFIER)]

mds_get_data_uri(rd, max_len) ==
  IF max_len = 0 THEN [ret |-> -EINVAL, str |-> <<>>, trace |-> <<>>]
  ELSE IF rd.ret < 0
  THEN [ret |-> rd.ret, str |-> <<>>, trace |-> FeatureRead(MDS_REPORT_ID_DATA_URI)]
  ELSE LET copy_len == IF rd.ret < max_len THEN rd.ret ELSE max_len - 1
       IN  [ret |-> 0, str |-> SubSeq(rd.data, 1, copy_len) \o <<0>>,
            trace |-> FeatureRead(MDS_REPORT_ID_DATA_URI)]

mds_get_authorization(rd, max_len) ==
  IF max_len = 0 THEN [ret |-> -EINVAL, str |-> <<>>, trace |-> <<>>]
  ELSE IF rd.ret < 0
  THEN [ret |-> rd.ret, str |-> <<>>,
        trace |-> FeatureRead(MDS_REPORT_ID_AUTHORIZATION)]
  ELSE LET copy_len == IF rd.ret < max_len THEN rd.ret ELSE max_len - 1
       IN  [ret |-> 0, str |-> SubSeq(rd.data, 1, copy_len) \o <<0>>,
            trace |-> FeatureRead(MDS_REPORT_ID_AUTHORIZATION)]

\* variant: a failed identifier read is passed over
mds_read_device_config_continues(rds) ==
  LET f == mds_get_supported_features(rds[1])
      d == mds_get_device_identifier(rds[2], MDS_MAX_DEVICE_ID_LEN)
      u == mds_get_data_uri(rds[3], MDS_MAX_URI_LEN)
      a == mds_get_authorization(rds[4], MDS_MAX_AUTH_LEN)
  IN  IF f.ret < 0 THEN [ret |-> f.ret, trace |-> f.trace]
      ELSE IF u.ret < 0
      THEN [ret |-> u.ret, trace |-> f.trace \o d.trace \o u.trace]
      ELSE IF a.ret < 0
      THEN [ret |-> a.ret, trace |-> f.trace \o d.trace \o u.trace \o a.trace]
      ELSE [ret |-> 0, trace |-> f.trace \o d.trace \o u.trace \o a.trace]

\* variant: the fields are filled only when all four reads have succeeded
mds_read_device_config_atomic(rds) ==
  LET f == mds_get_supported_features(rds[1])
      d == mds_get_device_identifier(rds[2], MDS_MAX_DEVICE_ID_LEN)
      u == mds_get_data_uri(rds[3], MDS_MAX_URI_LEN)
      a == mds_get_authorization(rds[4], MDS_MAX_AUTH_LEN)
      none == [authorization |-> <<>>, data_uri |-> <<>>,
               device_identifier |-> <<>>, supported_features |-> <<>>]
  IN  IF f.ret < 0 THEN [config |-> none, ret |-> f.ret, trace |-> f.trace]
      ELSE IF d.ret < 0
      THEN [config |-> none, ret |-> d.ret, trace |-> f.trace \o d.trace]
      ELSE IF u.ret < 0
      THEN [config |-> none, ret |-> u.ret, trace |-> f.trace \o d.trace \o u.trace]
      ELSE IF a.ret < 0
      THEN [config |-> none, ret |-> a.ret,
            trace |-> f.trace \o d.trace \o u.trace \o a.trace]
      ELSE [config |-> [authorization |-> a.str, data_uri |-> u.str,
                        device_identifier |-> d.str,
                        supported_features |-> <<f.features>>],
            ret |-> 0,
            trace |-> f.trace \o d.trace \o u.trace \o a.trace]

\* mds_read_device_config on a non-NULL session and config: rds[i] is what
\* the i-th backend read returns if it is issued; trace: the reads issued;
\* config: what the call stored in each field of *config (<<>>: the field
\* is left as the caller supplied it)
mds_read_device_config(rds) ==
  LET f == mds_get_supported_features(rds[1])
      d == mds_get_device_identifier(rds[2], MDS_MAX_DEVICE_ID_LEN)
      u == mds_get_data_uri(rds[3], MDS_MAX_URI_LEN)
      a == mds_get_authorization(rds[4], MDS_MAX_AUTH_LEN)
      \* the fields after the first k accessors have stored their values
      filled(k) ==
        [authorization |-> IF k >= 4 THEN a.str ELSE <<>>,
         data_uri |-> IF k >= 3 THEN u.str ELSE <<>>,
         device_identifier |-> IF k >= 2 THEN d.str ELSE <<>>,
         supported_features |-> IF k >= 1 THEN <<f.features>> ELSE <<>>]
  IN  IF f.ret < 0 THEN [config |-> filled(0), ret |-> f.ret, trace |-> f.trace]
      ELSE IF d.ret < 0
      THEN [config |-> filled(1), ret |-> d.ret, trace |-> f.trace \o d.trace]
      ELSE IF u.ret < 0
      THEN [config |-> filled(2), ret |-> u.ret,
            trace |-> f.trace \o d.trace \o u.trace]
      ELSE IF a.ret < 0
      THEN [config |-> filled(3), ret |-> a.ret,
            trace |-> f.trace \o d.trace \o u.trace \o a.trace]
      ELSE [config |-> filled(4), ret |-> 0,
            trace |-> f.trace \o d.trace \o u.trace \o a.trace]

(***************************************************************************)
(* Stream control                                                          *)
(***************************************************************************)
\* the stream-control report: one byte holding the mode
ControlWrite(mode) ==
  [data |-> <<mode>>, id |-> MDS_REPORT_ID_STREAM_CONTROL, op |-> "write"]

\* variant: the flag is set before the write is known to have succeeded
mds_stream_enable_eager(sess, wret) ==
  [ret |-> IF wret < 0 THEN wret ELSE 0,
   sess |-> [sess EXCEPT !.streaming_enabled = TRUE],
   trace |-> <<ControlWrite(MDS_STREAM_MODE_ENABLED)>>]

\* variant: a session that is already streaming is left alone
mds_stream_enable_once(sess, wret) ==
  LET trace == <<ControlWrite(MDS_STREAM_MODE_ENABLED)>>
  IN  IF sess.streaming_enabled
      THEN [ret |-> 0, sess |-> sess, trace |-> <<>>]
      ELSE IF wret < 0
      THEN [ret |-> wret, sess |-> sess, trace |-> trace]
      ELSE [ret |-> 0, sess |-> [sess EXCEPT !.streaming_enabled = TRUE],
            trace |-> trace]

\* wret: what the backend's write returned; trace: backend operations issued
mds_stream_enable(sess, wret) ==
  LET trace == <<ControlWrite(MDS_STREAM_MODE_ENABLED)>>
  IN  IF wret < 0
      THEN [ret |-> wret, sess |-> sess, trace |-> trace]
      ELSE [ret |-> 0, sess |-> [sess EXCEPT !.streaming_enabled = TRUE],
            trace |-> trace]

\* variant: the disable request carries the enable mode
mds_stream_disable_wrongmode(sess, wret) ==
  LET trace == <<ControlWrite(MDS_STREAM_MODE_ENABLED)>>
  IN  IF wret < 0
      THEN [ret |-> wret, sess |-> sess, trace |-> trace]
      ELSE [ret |-> 0, sess |-> [sess EXCEPT !.streaming_enabled = FALSE],
            trace |-> trace]

mds_stream_disable(sess, wret) ==
  LET trace == <<ControlWrite(MDS_STREAM_MODE_DISABLED)>>
  IN  IF wret < 0
      THEN [ret |-> wret, sess |-> sess, trace |-> trace]
      ELSE [ret |-> 0, sess |-> [sess EXCEPT !.streaming_enabled = FALSE],
            trace |-> trace]

(***************************************************************************)
(* Stream data reception                                                   *)
(***************************************************************************)
\* the read of the stream-data report
ReadTrace == <<[id |-> MDS_REPORT_ID_STREAM_DATA, op |-> "read"]>>

\* variant: the sequence is stored only when it continues the one before
mds_stream_read_packet_checked(sess, rd) ==
  IF rd.ret < 0
  THEN [pkt |-> mds_parse_stream_packet(<<>>), ret |-> rd.ret, sess |-> sess]
  ELSE LET pkt == mds_parse_stream_packet(SubSeq(rd.data, 1, rd.ret))
       IN  IF pkt.ret < 0
           THEN [pkt |-> pkt, ret |-> pkt.ret, sess |-> sess]
           ELSE [pkt |-> pkt,
                 ret |-> 0,
                 sess |-> IF sess.last_sequence = MDS_SEQUENCE_MAX
                             \/ mds_validate_sequence(sess.last_sequence, pkt.sequence)
                          THEN [sess EXCEPT !.last_sequence = pkt.sequence]
                          ELSE sess]

\* variant: a read of zero bytes is reported as a timeout
mds_stream_read_packet_idle(sess, rd) ==
  IF rd.ret < 0
  THEN [pkt |-> mds_parse_stream_packet(<<>>), ret |-> rd.ret, sess |-> sess]
  ELSE IF rd.ret = 0
       THEN [pkt |-> mds_parse_stream_packet(<<>>), ret |-> -ETIMEDOUT, sess |-> sess]
       ELSE [pkt |-> mds_parse_stream_packet(SubSeq(rd.data, 1, rd.ret)),
             ret |-> 0,
             sess |-> [sess EXCEPT
                         !.last_sequence =
                            mds_parse_stream_packet(SubSeq(rd.data, 1, rd.ret)).sequence]]

\* rd: what the backend's read returned
mds_stream_read_packet(sess, rd) ==
  IF rd.ret < 0
  THEN [pkt |-> mds_parse_stream_packet(<<>>), ret |-> rd.ret, sess |-> sess]
  ELSE LET pkt == mds_parse_stream_packet(SubSeq(rd.data, 1, rd.ret))
       IN  IF pkt.ret < 0
           THEN [pkt |-> pkt, ret |-> pkt.ret, sess |-> sess]
           ELSE [pkt |-> pkt,
                 ret |-> 0,
                 sess |-> [sess EXCEPT !.last_sequence = pkt.sequence]]

\* variant: the URI and the user data change places
HookCall_misplaced(sess, config, pkt) ==
  [auth |-> config.authorization,
   data |-> pkt.data,
   fn |-> sess.upload_callback,
   len |-> pkt.data_len,
   ud |-> config.data_uri,
   uri |-> sess.upload_user_data]

HookCall(sess, config, pkt) ==
  [auth |-> config.authorization,
   data |-> pkt.data,
   fn |-> sess.upload_callback,
   len |-> pkt.data_len,
   ud |-> sess.upload_user_data,
   uri |-> config.data_uri]

\* variant: a sequence error aborts the call before the update and the upload
mds_process_packet_common_fatal(sess, config, pkt, hr) ==
  LET validated == sess.last_sequence # MDS_SEQUENCE_MAX
      diag == validated /\ ~mds_validate_sequence(sess.last_sequence, pkt.sequence)
      called == sess.upload_callback # "NULL" /\ ~diag
  IN  [diag |-> diag,
       hookCalls |-> IF called THEN <<HookCall(sess, config, pkt)>> ELSE <<>>,
       packet_out |-> <<pkt>>,
       ret |-> IF diag THEN -EINVAL ELSE IF called /\ hr < 0 THEN hr ELSE 0,
       sess |-> IF diag THEN sess ELSE [sess EXCEPT !.last_sequence = pkt.sequence],
       vprev |-> IF validated THEN sess.last_sequence ELSE -1]

\* variant: a failed upload is retried once
mds_process_packet_common_retry(sess, config, pkt, hr) ==
  LET validated == sess.last_sequence # MDS_SEQUENCE_MAX
      diag == validated /\ ~mds_validate_sequence(sess.last_sequence, pkt.sequence)
      called == sess.upload_callback # "NULL"
      call == HookCall(sess, config, pkt)
  IN  [diag |-> diag,
       hookCalls |-> IF ~called THEN <<>>
                     ELSE IF hr < 0 THEN <<call, call>> ELSE <<call>>,
       packet_out |-> <<pkt>>,
       ret |-> IF called /\ hr < 0 THEN hr ELSE 0,
       sess |-> [sess EXCEPT !.last_sequence = pkt.sequence],
       vprev |-> IF validated THEN sess.last_sequence ELSE -1]

\* variant: the callback's result is dropped
mds_process_packet_common_swallow(sess, config, pkt, hr) ==
  LET validated == sess.last_sequence # MDS_SEQUENCE_MAX
      diag == validated /\ ~mds_validate_sequence(sess.last_sequence, pkt.sequence)
      called == sess.upload_callback # "NULL"
  IN  [diag |-> diag,
       hookCalls |-> IF called THEN <<HookCall(sess, config, pkt)>> ELSE <<>>,
       packet_out |-> <<pkt>>,
       ret |-> 0,
       sess |-> [sess EXCEPT !.last_sequence = pkt.sequence],
       vprev |-> IF validated THEN sess.last_sequence ELSE -1]

\* variant: chunks are forwarded only while streaming is enabled
mds_process_packet_common_gated(sess, config, pkt, hr) ==
  LET validated == sess.last_sequence # MDS_SEQUENCE_MAX
      diag == validated /\ ~mds_validate_sequence(sess.last_sequence, pkt.sequence)
      called == sess.upload_callback # "NULL" /\ sess.streaming_enabled
  IN  [diag |-> diag,
       hookCalls |-> IF called THEN <<HookCall(sess, config, pkt)>> ELSE <<>>,
       packet_out |-> <<pkt>>,
       ret |-> IF called /\ hr < 0 THEN hr ELSE 0,
       sess |-> [sess EXCEPT !.last_sequence = pkt.sequence],
       vprev |-> IF validated THEN sess.last_sequence ELSE -1]

\* variant: the packet is copied out only once the upload has succeeded
mds_process_packet_common_late(sess, config, pkt, hr) ==
  LET validated == sess.last_sequence # MDS_SEQUENCE_MAX
      diag == validated /\ ~mds_validate_sequence(sess.last_sequence, pkt.sequence)
      called == sess.upload_callback # "NULL"
  IN  [diag |-> diag,
       hookCalls |-> IF called THEN <<HookCall(sess, config, pkt)>> ELSE <<>>,
       packet_out |-> IF called /\ hr < 0 THEN <<>> ELSE <<pkt>>,
       ret |-> IF called /\ hr < 0 THEN hr ELSE 0,
       sess |-> [sess EXCEPT !.last_sequence = pkt.sequence],
       vprev |-> IF validated THEN sess.last_sequence ELSE -1]

\* hr: what the upload callback returns if it is invoked; packet_out: what
\* is stored in the caller's output packet when one is passed (<<>>: the
\* output is not written)
mds_process_packet_common(sess, config, pkt, hr) ==
  LET validated == sess.last_sequence # MDS_SEQUENCE_MAX
      diag == validated /\ ~mds_validate_sequence(sess.last_sequence, pkt.sequence)
      vprev == IF validated THEN sess.last_sequence ELSE -1
      called == sess.upload_callback # "NULL"
      calls == IF called THEN <<HookCall(sess, config, pkt)>> ELSE <<>>
  IN  [diag |-> diag,
       hookCalls |-> calls,
       packet_out |-> <<pkt>>,
       ret |-> IF called /\ hr < 0 THEN hr ELSE 0,
       sess |-> [sess EXCEPT !.last_sequence = pkt.sequence],
       vprev |-> vprev]

\* a processing call that ends before a packet is decoded; trace: the
\* backend operations it issued
NoProcessing(ret, sess, trace) ==
  [diag |-> FALSE,
   got |-> FALSE,
   hookCalls |-> <<>>,
   packet_out |-> <<>>,
   ret |-> ret,
   seq |-> -1,
   sess |-> sess,
   trace |-> trace,
   vprev |-> -1]

\* variant: a failed read is reported as an invalid argument
mds_process_stream_wraps(sess, config, rd, hr) ==
  LET r == mds_stream_read_packet(sess, rd)
  IN  IF r.ret < 0
      THEN NoProcessing(-EINVAL, sess, ReadTrace)
      ELSE LET c == mds_process_packet_common(r.sess, config, r.pkt, hr)
           IN  [diag |-> c.diag,
                got |-> TRUE,
                hookCalls |-> c.hookCalls,
                packet_out |-> c.packet_out,
                ret |-> c.ret,
                seq |-> r.pkt.sequence,
                sess |-> c.sess,
                trace |-> ReadTrace,
                vprev |-> c.vprev]

mds_process_stream(sess, config, rd, hr) ==
  LET r == mds_stream_read_packet(sess, rd)
  IN  IF r.ret < 0
      THEN NoProcessing(r.ret, sess, ReadTrace)
      ELSE LET c == mds_process_packet_common(r.sess, config, r.pkt, hr)
           IN  [diag |-> c.diag,
                got |-> TRUE,
                hookCalls |-> c.hookCalls,
                packet_out |-> c.packet_out,
                ret |-> c.ret,
                seq |-> r.pkt.sequence,
                sess |-> c.sess,
                trace |-> ReadTrace,
                vprev |-> c.vprev]

\* variant: the push entry point also polls the backend
mds_process_stream_from_bytes_polls(sess, config, buffer, hr) ==
  LET pkt == mds_parse_stream_packet(buffer)
  IN  IF pkt.ret < 0
      THEN NoProcessing(pkt.ret, sess, ReadTrace)
      ELSE LET c == mds_process_packet_common(sess, config, pkt, hr)
           IN  [diag |-> c.diag,
                got |-> TRUE,
                hookCalls |-> c.hookCalls,
                packet_out |-> c.packet_out,
                ret |-> c.ret,
                seq |-> pkt.sequence,
                sess |-> c.sess,
                trace |-> ReadTrace,
                vprev |-> c.vprev]

mds_process_stream_from_bytes(sess, config, buffer, hr) ==
  LET pkt == mds_parse_stream_packet(buffer)
  IN  IF pkt.ret < 0
      THEN NoProcessing(pkt.ret, sess, <<>>)
      ELSE LET c == mds_process_packet_common(sess, config, pkt, hr)
           IN  [diag |-> c.diag,
                got |-> TRUE,
                hookCalls |-> c.hookCalls,
                packet_out |-> c.packet_out,
                ret |-> c.ret,
                seq |-> pkt.sequence,
                sess |-> c.sess,
                trace |-> <<>>,
                vprev |-> c.vprev]

\* variant: registering a callback also restarts the sequence tracking
mds_set_upload_callback_restarts(sess, callback, user_data) ==
  [sess EXCEPT !.upload_callback = callback, !.upload_user_data = user_data,
               !.last_sequence = MDS_SEQUENCE_MAX]

mds_set_upload_callback(sess, callback, user_data) ==
  [sess EXCEPT !.upload_callback = callback, !.upload_user_data = user_data]

(***************************************************************************)
(* Session management                                                      *)
(***************************************************************************)
mds_session_create(backend) ==
  [backend |-> backend,
   last_sequence |-> MDS_SEQUENCE_MAX,
   state |-> "live",
   streaming_enabled |-> FALSE,
   upload_callback |-> "NULL",
   upload_user_data |-> "NULL"]

\* return value of mds_session_create for a non-NULL session pointer;
\* alloc_ok: calloc returned memory
mds_session_create_ret(alloc_ok) == IF alloc_ok THEN 0 ELSE -ENOMEM

\* mds_backend_hid_create: init_ret is what memfault_hid_init returned,
\* alloc_ok whether calloc returned memory, open_ret what memfault_hid_open
\* returned; backend: the caller's backend pointer was written; held: backend
\* structures allocated and not freed when the call returns
mds_backend_hid_create(init_ret, alloc_ok, open_ret) ==
  IF init_ret < 0 THEN [backend |-> FALSE, held |-> 0, ret |-> init_ret]
  ELSE IF ~alloc_ok
  THEN [backend |-> FALSE, held |-> 0, ret |-> MEMFAULT_HID_ERROR_NO_MEM]
  ELSE IF open_ret < 0 THEN [backend |-> FALSE, held |-> 0, ret |-> open_ret]
  ELSE [backend |-> TRUE, held |-> 1, ret |-> 0]

\* mds_backend_hid_create_path for a non-NULL path; open_ret is what
\* memfault_hid_open_path returned
mds_backend_hid_create_path(init_ret, alloc_ok, open_ret) ==
  IF init_ret < 0 THEN [backend |-> FALSE, held |-> 0, ret |-> init_ret]
  ELSE IF ~alloc_ok
  THEN [backend |-> FALSE, held |-> 0, ret |-> MEMFAULT_HID_ERROR_NO_MEM]
  ELSE IF open_ret < 0 THEN [backend |-> FALSE, held |-> 0, ret |-> open_ret]
  ELSE [backend |-> TRUE, held |-> 1, ret |-> 0]

\* variant: the backend is not released when the session cannot be created
mds_session_create_hid_leaks(hb, sess_alloc_ok) ==
  IF hb.ret < 0
  THEN [held |-> hb.held, ret |-> hb.ret, trace |-> <<>>, written |-> FALSE]
  ELSE LET ret == mds_session_create_ret(sess_alloc_ok)
       IN  [held |-> hb.held, ret |-> ret, trace |-> <<>>, written |-> ret >= 0]

\* mds_session_create_hid: hb is what mds_backend_hid_create returned;
\* written: the caller's session pointer was written; trace: operations on
\* the new backend; held: backend structures the call leaves allocated
mds_session_create_hid(hb, sess_alloc_ok) ==
  IF hb.ret < 0
  THEN [held |-> hb.held, ret |-> hb.ret, trace |-> <<>>, written |-> FALSE]
  ELSE LET ret == mds_session_create_ret(sess_alloc_ok)
       IN  IF ret < 0
           THEN [held |-> hb.held - 1,
                 ret |-> ret,
                 trace |-> <<[op |-> "destroy"]>>,
                 written |-> FALSE]
           ELSE [held |-> hb.held, ret |-> 0, trace |-> <<>>, written |-> TRUE]

\* mds_session_create_hid_path: path_ok: the path is not NULL; hb is what
\* mds_backend_hid_create_path returned
mds_session_create_hid_path(path_ok, hb, sess_alloc_ok) ==
  IF ~path_ok
  THEN [held |-> 0, ret |-> -EINVAL, trace |-> <<>>, written |-> FALSE]
  ELSE IF hb.ret < 0
  THEN [held |-> hb.held, ret |-> hb.ret, trace |-> <<>>, written |-> FALSE]
  ELSE LET ret == mds_session_create_ret(sess_alloc_ok)
       IN  IF ret < 0
           THEN [held |-> hb.held - 1,
                 ret |-> ret,
                 trace |-> <<[op |-> "destroy"]>>,
                 written |-> FALSE]
           ELSE [held |-> hb.held, ret |-> 0, trace |-> <<>>, written |-> TRUE]

\* variant: a failed disable write ends the destructor before the release
mds_session_destroy_bails(sess, wret) ==
  LET dis == IF sess.streaming_enabled
             THEN <<ControlWrite(MDS_STREAM_MODE_DISABLED)>> ELSE <<>>
      rel == IF sess.backend # NULL /\ ~(sess.streaming_enabled /\ wret < 0)
             THEN <<[op |-> "destroy"]>> ELSE <<>>
  IN  dis \o rel

\* backend operations mds_session_destroy issues, in order; wret is what
\* the disable write returns (ignored by the destructor)
mds_session_destroy(sess, wret) ==
  LET dis == IF sess.streaming_enabled
             THEN mds_stream_disable(sess, wret).trace ELSE <<>>
      rel == IF sess.backend # NULL THEN <<[op |-> "destroy"]>> ELSE <<>>
  IN  dis \o rel

(***************************************************************************)
(* Actions: one per API call, plus the device queueing a report            *)
(***************************************************************************)
Call(op, s) == [NoCall EXCEPT !.op = op, !.s = s, !.prev = prevSeq[s]]

\* abort of the process: failed assert in the backend dispatch, or an access
\* to a backend whose destroy operation already ran
Fault ==
  /\ faulted' = TRUE
  /\ last' = [NoCall EXCEPT !.op = "fault"]
  /\ UNCHANGED <<sessions, backends, hookLog, obtained, prevSeq, delivered>>
  /\ UNCHANGED uvars

\* dispatching through a NULL backend asserts; through a destroyed backend
\* the access is invalid and may abort or appear to work
MayFault(s) ==
  IF sessions[s].backend = NULL THEN TRUE
  ELSE backends[sessions[s].backend].destroyed > 0

MayProceed(s) == sessions[s].backend # NULL

FreeSlots == {s \in SessionIds : sessions[s].state = "free"}
Lowest(S) == CHOOSE x \in S : \A y \in S : x <= y

\* no session is live: the caller uses one session at a time
Solo == \A s \in SessionIds : ~Live(s)

\* backends whose destroy operation has not run
OpenBackends == {b \in BackendIds : backends[b].destroyed = 0}

SessionCreate(b) ==
  /\ ~faulted /\ FreeSlots # {}
  /\ LET s == Lowest(FreeSlots)
     IN  /\ sessions' = [sessions EXCEPT ![s] = mds_session_create(b)]
         /\ last' = [NoCall EXCEPT !.op = "create", !.s = s]
  /\ UNCHANGED <<backends, hookLog, obtained, prevSeq, delivered, faulted>>
  /\ UNCHANGED uvars

\* one session at a time, each over no backend or over the next unused one
CreateSolo ==
  /\ Solo
  /\ \E b \in {NULL} \cup (IF OpenBackends = {} THEN {} ELSE {Lowest(OpenBackends)}) :
       SessionCreate(b)

\* sessions side by side, over no backend or over any open one
CreateShared == \E b \in {NULL} \cup OpenBackends : SessionCreate(b)

\* effect of the backend operations of a trace on the backend instances
RECURSIVE ApplyTrace(_, _, _)
ApplyTrace(bks, b, tr) ==
  IF tr = <<>> THEN bks
  ELSE ApplyTrace(IF Head(tr).op = "destroy"
                  THEN [bks EXCEPT ![b] = mds_backend_destroy(@)]
                  ELSE IF Head(tr).op = "read" /\ bks[b].queue # <<>>
                  THEN [bks EXCEPT ![b].queue = Tail(@)]
                  ELSE bks, b, Tail(tr))

\* backends no session was created over yet
FreshBackends ==
  {b \in OpenBackends : \A s \in SessionIds : sessions[s].backend # b}

\* what memfault_hid_init and memfault_hid_open / memfault_hid_open_path
\* may return
HidInitResults == {0, MEMFAULT_HID_ERROR_UNKNOWN}
HidOpenResults == {0, MEMFAULT_HID_ERROR_NOT_FOUND}

\* bookkeeping of a HID session constructor: hb is the backend constructor's
\* result, r the session constructor's; the backend, if one was constructed,
\* is the next fresh instance; arg lists the call's inputs as
\* <<path_ok, init_ret, alloc_ok, open_ret, sess_alloc_ok>>
HidCreated(op, hb, r, arg) ==
  /\ ~faulted /\ FreeSlots # {} /\ FreshBackends # {}
  /\ LET s == Lowest(FreeSlots)
         b == Lowest(FreshBackends)
     IN  /\ sessions' = IF r.written
                        THEN [sessions EXCEPT ![s] = mds_session_create(b)]
                        ELSE sessions
         /\ backends' = ApplyTrace(backends, b, r.trace)
         /\ last' = [NoCall EXCEPT !.op = op, !.s = IF r.written THEN s ELSE NULL,
                       !.ret = r.ret, !.trace = r.trace, !.arg = arg,
                       !.out = [hbret |-> hb.ret,
                                held |-> r.held,
                                written |-> r.written]]
  /\ UNCHANGED <<hookLog, obtained, prevSeq, delivered, faulted>>
  /\ UNCHANGED uvars

SessionCreateHid ==
  \E init_ret \in HidInitResults, alloc_ok \in BOOLEAN,
     open_ret \in HidOpenResults, sess_alloc_ok \in BOOLEAN :
    LET hb == mds_backend_hid_create(init_ret, alloc_ok, open_ret)
    IN  HidCreated("create_hid", hb, mds_session_create_hid(hb, sess_alloc_ok),
                   <<TRUE, init_ret, alloc_ok, open_ret, sess_alloc_ok>>)

SessionCreateHidPath ==
  \E path_ok \in BOOLEAN, init_ret \in HidInitResults, alloc_ok \in BOOLEAN,
     open_ret \in HidOpenResults, sess_alloc_ok \in BOOLEAN :
    LET hb == mds_backend_hid_create_path(init_ret, alloc_ok, open_ret)
    IN  HidCreated("create_hid_path", hb,
                   mds_session_create_hid_path(path_ok, hb, sess_alloc_ok),
                   <<path_ok, init_ret, alloc_ok, open_ret, sess_alloc_ok>>)

SessionDestroy(s) ==
  /\ ~faulted /\ Live(s)
  /\ LET sess == sessions[s]
         b == sess.backend
     IN  IF b = NULL
         THEN IF sess.streaming_enabled
              THEN Fault
              ELSE /\ last' = [Call("destroy", s) EXCEPT
                                 !.trace = mds_session_destroy(sess, 0)]
                   /\ sessions' = [sessions EXCEPT ![s] = FreedSession(b)]
                   /\ prevSeq' = [prevSeq EXCEPT ![s] = -1]
                   /\ UNCHANGED <<backends, hookLog, obtained, delivered, faulted>>
         ELSE \/ MayFault(s) /\ Fault
              \/ /\ \E wret \in WriteOutcomes(b, 1) :
                       LET tr == mds_session_destroy(sess, wret)
                       IN  /\ last' = [Call("destroy", s) EXCEPT
                                         !.trace = tr, !.wret = wret]
                           /\ backends' = ApplyTrace(backends, b, tr)
                 /\ sessions' = [sessions EXCEPT ![s] = FreedSession(b)]
                 /\ prevSeq' = [prevSeq EXCEPT ![s] = -1]
                 /\ UNCHANGED <<hookLog, obtained, delivered, faulted>>
  /\ UNCHANGED uvars

StreamEnable(s) ==
  /\ ~faulted /\ Live(s)
  /\ \/ MayFault(s) /\ Fault
     \/ /\ MayProceed(s)
        /\ \E wret \in WriteOutcomes(sessions[s].backend, 1) :
             LET r == mds_stream_enable(sessions[s], wret)
             IN  /\ sessions' = [sessions EXCEPT ![s] = r.sess]
                 /\ last' = [Call("enable", s) EXCEPT !.ret = r.ret, !.wret = wret,
                               !.trace = r.trace,
                               !.arg = <<sessions[s].streaming_enabled>>]
        /\ UNCHANGED <<backends, hookLog, obtained, prevSeq, delivered, faulted>>
  /\ UNCHANGED uvars

StreamDisable(s) ==
  /\ ~faulted /\ Live(s)
  /\ \/ MayFault(s) /\ Fault
     \/ /\ MayProceed(s)
        /\ \E wret \in WriteOutcomes(sessions[s].backend, 1) :
             LET r == mds_stream_disable(sessions[s], wret)
             IN  /\ sessions' = [sessions EXCEPT ![s] = r.sess]
                 /\ last' = [Call("disable", s) EXCEPT !.ret = r.ret, !.wret = wret,
                               !.trace = r.trace,
                               !.arg = <<sessions[s].streaming_enabled>>]
        /\ UNCHANGED <<backends, hookLog, obtained, prevSeq, delivered, faulted>>
  /\ UNCHANGED uvars

SetUploadCallback(s) ==
  /\ ~faulted /\ Live(s)
  /\ \E h \in Hooks \cup {NoHook} :
       /\ sessions' = [sessions EXCEPT ![s] = mds_set_upload_callback(@, h.fn, h.ud)]
       /\ last' = [Call("set_callback", s) EXCEPT !.arg = <<h.fn, h.ud>>]
  /\ UNCHANGED <<backends, hookLog, obtained, prevSeq, delivered, faulted>>
  /\ UNCHANGED uvars

\* the device queues one stream-data report on a transport a session holds
DeviceSend(b) ==
  /\ ~faulted /\ delivered < MaxPackets
  /\ backends[b].destroyed = 0
  /\ \E s \in SessionIds : Live(s) /\ sessions[s].backend = b
  /\ \E buf \in StreamBuffers :
       backends' = [backends EXCEPT ![b].queue = Append(@, buf)]
  /\ delivered' = delivered + 1
  /\ UNCHANGED <<sessions, last, hookLog, obtained, prevSeq, faulted>>
  /\ UNCHANGED uvars

ReadPacket(s) ==
  /\ ~faulted /\ Live(s)
  /\ \/ MayFault(s) /\ Fault
     \/ /\ MayProceed(s)
        /\ \E rd \in ReadOutcomes(sessions[s].backend) :
             LET r == mds_stream_read_packet(sessions[s], rd)
             IN  /\ sessions' = [sessions EXCEPT ![s] = r.sess]
                 /\ backends' = [backends EXCEPT ![sessions[s].backend].queue = rd.queue]
                 /\ prevSeq' = IF r.ret = 0
                                THEN [prevSeq EXCEPT ![s] = r.pkt.sequence]
                                ELSE prevSeq
                 /\ last' = [Call("read_packet", s) EXCEPT !.ret = r.ret,
                               !.got = (r.ret = 0),
                               !.seq = IF r.ret = 0 THEN r.pkt.sequence ELSE -1,
                               !.trace = ReadTrace, !.rdkind = rd.kind]
        /\ UNCHANGED <<hookLog, obtained, delivered, faulted>>
  /\ UNCHANGED uvars

\* bookkeeping common to the two processing entry points; arg: the data URI
\* and the authorization of the configuration passed (and the bytes pushed)
Processed(op, s, r, hr, rdkind, arg) ==
  /\ sessions' = [sessions EXCEPT ![s] = r.sess]
  /\ prevSeq' = IF r.got THEN [prevSeq EXCEPT ![s] = r.seq] ELSE prevSeq
  /\ hookLog' = hookLog \o [i \in DOMAIN r.hookCalls |-> <<s, r.hookCalls[i].data>>]
  /\ last' = [Call(op, s) EXCEPT !.ret = r.ret, !.got = r.got, !.seq = r.seq,
                !.vprev = r.vprev, !.diag = r.diag,
                !.hookCalls = r.hookCalls,
                !.hr = IF r.hookCalls # <<>> THEN hr ELSE 0,
                !.trace = r.trace, !.rdkind = rdkind, !.arg = arg,
                !.out = r.packet_out]

ProcessStream(s) ==
  /\ ~faulted /\ Live(s)
  /\ \/ MayFault(s) /\ Fault
     \/ /\ MayProceed(s)
        /\ \E rd \in ReadOutcomes(sessions[s].backend), cfg \in Configs, hr \in HookResults :
             LET r == mds_process_stream(sessions[s], cfg, rd, hr)
             IN  /\ Processed("process_stream", s, r, hr, rd.kind,
                              <<cfg.data_uri, cfg.authorization>>)
                 /\ backends' = [backends EXCEPT ![sessions[s].backend].queue = rd.queue]
                 /\ obtained' = IF rd.ret >= 1 /\ sessions[s].upload_callback # "NULL"
                                 THEN Append(obtained, <<s, Tail(rd.data)>>)
                                 ELSE obtained
        /\ UNCHANGED <<delivered, faulted>>
  /\ UNCHANGED uvars

\* the caller pushes the bytes of one report; a backend operation in the
\* call's trace goes through the backend dispatch like any other
ProcessBytes(s) ==
  /\ ~faulted /\ Live(s)
  /\ delivered < MaxPackets
  /\ \E buf \in StreamBuffers \cup {<<>>}, cfg \in Configs, hr \in HookResults :
       LET r == mds_process_stream_from_bytes(sessions[s], cfg, buf, hr)
           b == sessions[s].backend
       IN  IF r.trace # <<>> /\ b = NULL
           THEN Fault
           ELSE /\ Processed("process_bytes", s, r, hr, "none",
                             <<cfg.data_uri, cfg.authorization, buf>>)
                /\ obtained' = IF Len(buf) >= 1 /\ sessions[s].upload_callback # "NULL"
                                THEN Append(obtained, <<s, Tail(buf)>>)
                                ELSE obtained
                /\ backends' = IF r.trace = <<>> THEN backends
                               ELSE ApplyTrace(backends, b, r.trace)
                /\ delivered' = delivered + 1
                /\ UNCHANGED faulted
  /\ UNCHANGED uvars

Next ==
  \/ CreateSolo
  \/ \E s \in SessionIds : SessionDestroy(s)
  \/ \E s \in SessionIds : StreamEnable(s)
  \/ \E s \in SessionIds : StreamDisable(s)
  \/ \E s \in SessionIds : SetUploadCallback(s)
  \/ \E b \in BackendIds : DeviceSend(b)
  \/ \E s \in SessionIds : ReadPacket(s)
  \/ \E s \in SessionIds : ProcessStream(s)
  \/ \E s \in SessionIds : ProcessBytes(s)

Spec == Init /\ [][Next]_vars

\* several sessions live at once (and free to name the same backend), without
\* stream traffic
NextShared ==
  \/ CreateShared
  \/ \E s \in SessionIds : SessionDestroy(s)
  \/ \E s \in SessionIds : StreamEnable(s)
  \/ \E s \in SessionIds : StreamDisable(s)
  \/ \E s \in SessionIds : SetUploadCallback(s)
  \/ \E s \in SessionIds : ReadPacket(s)
  \/ \E s \in SessionIds : ProcessStream(s)

SpecShared == Init /\ [][NextShared]_vars

\* sessions constructed over the HID backend, their stream control and
\* their destruction
NextHid ==
  \/ SessionCreateHid
  \/ SessionCreateHidPath
  \/ \E s \in SessionIds : SessionDestroy(s)
  \/ \E s \in SessionIds : StreamEnable(s)
  \/ \E s \in SessionIds : StreamDisable(s)
  \/ \E s \in SessionIds : SetUploadCallback(s)

SpecHid == Init /\ [][NextHid]_vars

(***************************************************************************)
(* The two delivery paths side by side: session PullSession reads each     *)
(* report from its backend (mds_process_stream), session PushSession is    *)
(* handed the same bytes (mds_process_stream_from_bytes)                   *)
(***************************************************************************)
PullSession == 1
PushSession == 2

InitTwin ==
  /\ sessions = [s \in SessionIds |->
                   IF s = PullSession THEN mds_session_create(1)
                   ELSE IF s = PushSession THEN mds_session_create(NULL)
                   ELSE FreeSession]
  /\ backends = [b \in BackendIds |-> [destroyed |-> 0, queue |-> <<>>]]
  /\ last = NoCall
  /\ hookLog = <<>>
  /\ obtained = <<>>
  /\ prevSeq = [s \in SessionIds |-> -1]
  /\ delivered = 0
  /\ faulted = FALSE
  /\ UploaderInit

\* the same callback is registered with both sessions
TwinSetUploadCallback ==
  /\ \E h \in Hooks \cup {NoHook} :
       sessions' = [sessions EXCEPT
                      ![PullSession] = mds_set_upload_callback(@, h.fn, h.ud),
                      ![PushSession] = mds_set_upload_callback(@, h.fn, h.ud)]
  /\ last' = [NoCall EXCEPT !.op = "set_callback"]
  /\ UNCHANGED <<backends, hookLog, obtained, prevSeq, delivered, faulted>>
  /\ UNCHANGED uvars

\* one report reaches both sessions: the device queues it and PullSession
\* reads it at once; PushSession is handed its bytes; the callback returns
\* the same value to both
TwinDeliver ==
  /\ delivered < MaxPackets
  /\ \E buf \in StreamBuffers \cup {<<>>}, cfg \in Configs, hr \in HookResults :
       \E m \in memfault_hid_read_report([destroyed |-> 0, queue |-> <<buf>>]) :
         /\ m.kind = "data"
         /\ LET rd == hid_backend_read(m, MDS_REPORT_ID_STREAM_DATA)
                pull == mds_process_stream(sessions[PullSession], cfg, rd, hr)
                push == mds_process_stream_from_bytes(sessions[PushSession], cfg, buf, hr)
            IN  /\ sessions' = [sessions EXCEPT ![PullSession] = pull.sess,
                                                ![PushSession] = push.sess]
                /\ hookLog' = hookLog
                     \o [i \in DOMAIN pull.hookCalls |-> <<PullSession, pull.hookCalls[i].data>>]
                     \o [i \in DOMAIN push.hookCalls |-> <<PushSession, push.hookCalls[i].data>>]
                /\ prevSeq' = IF pull.got
                              THEN [prevSeq EXCEPT ![PullSession] = pull.seq,
                                                   ![PushSession] = pull.seq]
                              ELSE prevSeq
                /\ last' = [Call("twin", PullSession) EXCEPT
                              !.ret = pull.ret, !.got = pull.got, !.seq = pull.seq,
                              !.vprev = pull.vprev, !.diag = pull.diag,
                              !.hookCalls = pull.hookCalls, !.trace = pull.trace,
                              !.rdkind = rd.kind, !.arg = buf,
                              !.out = [diag |-> push.diag,
                                       got |-> push.got,
                                       hookCalls |-> push.hookCalls,
                                       ret |-> push.ret]]
  /\ delivered' = delivered + 1
  /\ UNCHANGED <<backends, obtained, faulted>>
  /\ UNCHANGED uvars

NextTwin == TwinSetUploadCallback \/ TwinDeliver

SpecTwin == InitTwin /\ [][NextTwin]_vars

(***************************************************************************)
(* Direct calls of mds_validate_sequence (test_client.c, Test 18): the     *)
(* arguments are drawn first, then the function is applied                 *)
(***************************************************************************)
Sequences5 == 0..MDS_SEQUENCE_MAX

InitValidate ==
  /\ sessions = [s \in SessionIds |-> FreeSession]
  /\ backends = [b \in BackendIds |-> [destroyed |-> 0, queue |-> <<>>]]
  /\ last \in {[NoCall EXCEPT !.op = "validate_args", !.prev = p, !.seq = n] :
                  p \in Sequences5, n \in Sequences5}
  /\ hookLog = <<>>
  /\ obtained = <<>>
  /\ prevSeq = [s \in SessionIds |-> -1]
  /\ delivered = 0
  /\ faulted = FALSE
  /\ UploaderInit

ValidateSequence ==
  /\ last.op = "validate_args"
  /\ last' = [last EXCEPT !.op = "validate",
                !.ret = IF mds_validate_sequence(last.prev, last.seq) THEN 1 ELSE 0]
  /\ UNCHANGED <<sessions, backends, hookLog, obtained, prevSeq, delivered, faulted>>
  /\ UNCHANGED uvars

SpecValidate == InitValidate /\ [][ValidateSequence]_vars

(***************************************************************************)
(* Direct calls of the decoders and accessors: the arguments are drawn     *)
(* first, then the function is applied                                     *)
(***************************************************************************)
ArgsOf(op, Args) == {[NoCall EXCEPT !.op = op, !.arg = a] : a \in Args}

InitArgs(calls) ==
  /\ sessions = [s \in SessionIds |-> FreeSession]
  /\ backends = [b \in BackendIds |-> [destroyed |-> 0, queue |-> <<>>]]
  /\ last \in calls
  /\ hookLog = <<>>
  /\ obtained = <<>>
  /\ prevSeq = [s \in SessionIds |-> -1]
  /\ delivered = 0
  /\ faulted = FALSE
  /\ UploaderInit

\* the call named by last.op is applied to last.arg and r is its result
Applied(argsop, op, r) ==
  /\ last.op = argsop
  /\ last' = [last EXCEPT !.op = op, !.ret = r.ret, !.out = r]
  /\ UNCHANGED <<sessions, backends, hookLog, obtained, prevSeq, delivered, faulted>>
  /\ UNCHANGED uvars

\* mds_parse_stream_packet: byte 0 takes every value, the payload bytes
\* depend on their position; the buffer of test_client.c is among them
PayloadByte(i) == (37 * i) % 256
ParseBuffers ==
  {[i \in 1..len |-> IF i = 1 THEN b0 ELSE PayloadByte(i)] :
     b0 \in 0..255, len \in 0..MaxBufLen} \cup {<<3, 170, 187>>}

ParseStreamPacket ==
  Applied("parse_args", "parse", mds_parse_stream_packet(last.arg))

SpecParse == InitArgs(ArgsOf("parse_args", ParseBuffers)) /\ [][ParseStreamPacket]_vars

\* mds_get_supported_features: what the read of report 0x01 may return
FeatureBytes == {0, 1, 128, 255}
FeatureReads ==
  {[data |-> <<a, b, c, d>>, ret |-> r] :
     r \in {MEMFAULT_HID_ERROR_IO} \cup 0..4,
     a \in FeatureBytes, b \in FeatureBytes, c \in FeatureBytes, d \in FeatureBytes}

GetSupportedFeatures ==
  Applied("features_args", "get_supported_features",
          mds_get_supported_features(last.arg))

SpecFeatures ==
  InitArgs(ArgsOf("features_args", FeatureReads)) /\ [][GetSupportedFeatures]_vars

\* the string accessors: a report of n bytes and a destination of max_len
ReportByte(i) == 32 + (i % 95)
StringArgs(maxn) ==
  {[data |-> [i \in 1..n |-> ReportByte(i)], max_len |-> m, ret |-> n] :
     n \in 0..maxn, m \in 1..MaxDestLen}
  \cup {[data |-> <<>>, max_len |-> MaxDestLen, ret |-> MEMFAULT_HID_ERROR_IO]}

GetDeviceIdentifier ==
  Applied("device_identifier_args", "get_device_identifier",
          mds_get_device_identifier(last.arg, last.arg.max_len))

GetDataUri ==
  Applied("data_uri_args", "get_data_uri",
          mds_get_data_uri(last.arg, last.arg.max_len))

GetAuthorization ==
  Applied("authorization_args", "get_authorization",
          mds_get_authorization(last.arg, last.arg.max_len))

InitStrings ==
  InitArgs(ArgsOf("device_identifier_args", StringArgs(MDS_MAX_DEVICE_ID_LEN))
           \cup ArgsOf("data_uri_args", StringArgs(MDS_MAX_URI_LEN))
           \cup ArgsOf("authorization_args", StringArgs(MDS_MAX_AUTH_LEN)))

NextStrings == GetDeviceIdentifier \/ GetDataUri \/ GetAuthorization

SpecStrings == InitStrings /\ [][NextStrings]_vars

\* mds_read_device_config: what each of the four reads returns if issued
ConfigFeatureReads ==
  {[data |-> <<>>, ret |-> MEMFAULT_HID_ERROR_IO],
   [data |-> <<>>, ret |-> MEMFAULT_HID_ERROR_TIMEOUT],
   [data |-> <<0, 0>>, ret |-> 2],
   [data |-> <<0, 0, 0, 0>>, ret |-> 4]}
ConfigStringReads ==
  {[data |-> <<>>, ret |-> MEMFAULT_HID_ERROR_IO],
   [data |-> <<>>, ret |-> MEMFAULT_HID_ERROR_TIMEOUT],
   [data |-> <<65, 66, 67>>, ret |-> 3]}
ConfigReads ==
  {<<f, d, u, a>> : f \in ConfigFeatureReads, d \in ConfigStringReads,
                    u \in ConfigStringReads, a \in ConfigStringReads}

ReadDeviceConfig ==
  Applied("config_args", "read_device_config", mds_read_device_config(last.arg))

SpecConfig == InitArgs(ArgsOf("config_args", ConfigReads)) /\ [][ReadDeviceConfig]_vars

TypeOK ==
  /\ \A s \in SessionIds : sessions[s].last_sequence \in 0..31
  /\ delivered \in 0..MaxPackets

(***************************************************************************)
(* Direct use of the uploader (test_upload.c): deliveries, statistics and  *)
(* configuration calls in any order                                        *)
(***************************************************************************)
MaxUploads == 3   \* uploader callback invocations in total

UploadUris == {"https://x/y"}
\* authorization headers: well formed, with a second colon, without a colon
AuthHeaders == {<<"K", ":", "a">>, <<"K", ":", "a", ":", "b">>, <<"K", "a">>}
UploadChunks == {<<1, 2, 3, 4, 5>>, <<7, 8>>}
\* answers of the network: 200, 202, 404, and no answer at all
NetOutcomes ==
  {[ok |-> TRUE, response |-> <<200>>], [ok |-> TRUE, response |-> <<202>>],
   [ok |-> TRUE, response |-> <<404>>], [ok |-> FALSE, response |-> <<>>]}
TimeoutsMs == {60000}

\* the request counter and the outcome counts after one callback invocation
Requested(r) ==
  IF r.request = <<>> THEN http
  ELSE [last |-> r.request, requests |-> http.requests + 1,
        uris |-> Append(http.uris, r.request[1].uri)]

Tallied(ret, chunk_len) ==
  IF ret = 0
  THEN [tally EXCEPT !.calls = @ + 1, !.ok = @ + 1, !.bytes = @ + chunk_len,
                     !.lens = @ \cup {chunk_len}]
  ELSE [tally EXCEPT !.calls = @ + 1, !.failed = @ + 1]

UploaderCallback ==
  /\ tally.calls < MaxUploads
  /\ \E uri \in UploadUris, auth \in AuthHeaders, chunk \in UploadChunks,
        net \in NetOutcomes :
       LET r == chunks_uploader_callback(uploader, uri, auth, chunk, Len(chunk), net)
       IN  /\ uploader' = r.uploader
           /\ http' = Requested(r)
           /\ tally' = Tallied(r.ret, Len(chunk))
           /\ last' = [NoCall EXCEPT !.op = "uploader_callback", !.ret = r.ret,
                         !.arg = <<uri, auth, chunk, net>>]
  /\ UNCHANGED <<sessions, backends, hookLog, obtained, prevSeq, delivered, faulted,
                 loop>>

UploaderGetStats ==
  /\ LET r == chunks_uploader_get_stats(uploader)
     IN  last' = [NoCall EXCEPT !.op = "uploader_get_stats", !.ret = r.ret,
                    !.out = r.stats]
  /\ UNCHANGED <<sessions, backends, hookLog, obtained, prevSeq, delivered, faulted>>
  /\ UNCHANGED uvars

\* the outcome counts restart with the statistics
UploaderResetStats ==
  /\ \E keep_status \in BOOLEAN :
       uploader' = chunks_uploader_reset_stats(uploader, keep_status)
  /\ tally' = [tally EXCEPT !.ok = 0, !.failed = 0, !.bytes = 0, !.lens = {}]
  /\ last' = [NoCall EXCEPT !.op = "uploader_reset_stats"]
  /\ UNCHANGED <<sessions, backends, hookLog, obtained, prevSeq, delivered, faulted,
                 http, loop>>

UploaderSetTimeout ==
  /\ \E ms \in TimeoutsMs :
       /\ uploader' = chunks_uploader_set_timeout(uploader, ms)
       /\ last' = [NoCall EXCEPT !.op = "uploader_set_timeout", !.arg = <<ms>>]
  /\ UNCHANGED <<sessions, backends, hookLog, obtained, prevSeq, delivered, faulted,
                 http, tally, loop>>

UploaderSetVerbose ==
  /\ \E v \in BOOLEAN :
       /\ uploader' = chunks_uploader_set_verbose(uploader, v)
       /\ last' = [NoCall EXCEPT !.op = "uploader_set_verbose", !.arg = <<v>>]
  /\ UNCHANGED <<sessions, backends, hookLog, obtained, prevSeq, delivered, faulted,
                 http, tally, loop>>

NextUploader ==
  \/ UploaderCallback
  \/ UploaderGetStats
  \/ UploaderResetStats
  \/ UploaderSetTimeout
  \/ UploaderSetVerbose

SpecUploader == Init /\ [][NextUploader]_vars

(***************************************************************************)
(* A session whose upload callback is the uploader (test_mds_e2e.c): the   *)
(* device queues stream reports, the caller polls with mds_process_stream  *)
(***************************************************************************)
UploaderHook == [fn |-> "chunks_uploader_callback", ud |-> "uploader"]
E2ESession == 1
\* stream reports: sequence byte, then the chunk
E2EBuffers == {<<0, 1, 2, 3, 4, 5>>, <<9, 7, 8>>}
\* configurations read from the device: a well-formed authorization and
\* one without a colon
E2EConfigs ==
  {[authorization |-> <<"K", "e", "y", ":", "a", "b", "c">>, data_uri |-> "https://x/y"],
   [authorization |-> <<"K", "e", "y", ":", "d">>, data_uri |-> "https://x/z"],
   [authorization |-> <<"K", "e", "y">>, data_uri |-> "https://x/y"]}

\* answers of the network: 202, 404, and no answer at all
E2ENetOutcomes ==
  {[ok |-> TRUE, response |-> <<202>>], [ok |-> TRUE, response |-> <<404>>],
   [ok |-> FALSE, response |-> <<>>]}

InitE2E ==
  /\ sessions = [s \in SessionIds |->
                   IF s = E2ESession
                   THEN mds_set_upload_callback(mds_session_create(1),
                                                UploaderHook.fn, UploaderHook.ud)
                   ELSE FreeSession]
  /\ backends = [b \in BackendIds |-> [destroyed |-> 0, queue |-> <<>>]]
  /\ last = NoCall
  /\ hookLog = <<>>
  /\ obtained = <<>>
  /\ prevSeq = [s \in SessionIds |-> -1]
  /\ delivered = 0
  /\ faulted = FALSE
  /\ UploaderInit

E2EDeviceSend ==
  /\ delivered < MaxUploads
  /\ \E buf \in E2EBuffers :
       backends' = [backends EXCEPT ![sessions[E2ESession].backend].queue = Append(@, buf)]
  /\ delivered' = delivered + 1
  /\ UNCHANGED <<sessions, last, hookLog, obtained, prevSeq, faulted>>
  /\ UNCHANGED uvars

\* the uploader after the callback invocations of one processing call, on a
\* network that answers each request with net
RECURSIVE UploadAll(_, _, _)
UploadAll(st, calls, net) ==
  IF calls = <<>> THEN st
  ELSE LET c == Head(calls)
           r == chunks_uploader_callback(st.uploader, c.uri, c.auth, c.data, c.len, net)
       IN  UploadAll([http |-> IF r.request = <<>> THEN st.http
                               ELSE [last |-> r.request,
                                     requests |-> st.http.requests + 1,
                                     uris |-> Append(st.http.uris, r.request[1].uri)],
                      ret |-> r.ret,
                      uploader |-> r.uploader],
                     Tail(calls), net)

\* the value the callback returns is the uploader's result for the call's
\* chunk
E2EProcessStream ==
  /\ \E rd \in ReadOutcomes(sessions[E2ESession].backend), cfg \in E2EConfigs,
        net \in E2ENetOutcomes :
       LET sess == sessions[E2ESession]
           st0 == [http |-> http, ret |-> 0, uploader |-> uploader]
           hr == UploadAll(st0, mds_process_stream(sess, cfg, rd, 0).hookCalls, net).ret
           r == mds_process_stream(sess, cfg, rd, hr)
           st == UploadAll(st0, r.hookCalls, net)
       IN  /\ Processed("process_stream", E2ESession, r, hr, rd.kind,
                        <<cfg.data_uri, cfg.authorization>>)
           /\ backends' = [backends EXCEPT ![sess.backend].queue = rd.queue]
           /\ obtained' = IF rd.ret >= 1
                           THEN Append(obtained, <<E2ESession, Tail(rd.data)>>)
                           ELSE obtained
           /\ uploader' = st.uploader
           /\ http' = st.http
           /\ tally' = [tally EXCEPT
                          !.ok = @ + (IF r.ret = 0 THEN 1 ELSE 0),
                          !.failed = @ + (IF r.hookCalls # <<>> /\ r.ret < 0 THEN 1 ELSE 0)]
  /\ UNCHANGED <<delivered, faulted, loop>>

NextE2E == E2EDeviceSend \/ E2EProcessStream

SpecE2E == InitE2E /\ [][NextE2E]_vars

(***************************************************************************)
(* The processing entry points with pointer arguments that may be NULL: sp *)
(* and cp are <<>> for a NULL session or configuration, else <<the         *)
(* object>>; run: <<what the call did>> once the arguments were accepted   *)
(***************************************************************************)
\* variant: the configuration is looked at only after the read
mds_process_stream_args_late(sp, cp, rd, hr) ==
  IF sp = <<>> THEN [ret |-> -EINVAL, run |-> <<>>]
  ELSE IF cp = <<>>
  THEN [ret |-> -EINVAL,
        run |-> <<NoProcessing(-EINVAL, mds_stream_read_packet(sp[1], rd).sess,
                               ReadTrace)>>]
  ELSE [ret |-> mds_process_stream(sp[1], cp[1], rd, hr).ret,
        run |-> <<mds_process_stream(sp[1], cp[1], rd, hr)>>]

mds_process_stream_args(sp, cp, rd, hr) ==
  IF sp = <<>> \/ cp = <<>> THEN [ret |-> -EINVAL, run |-> <<>>]
  ELSE [ret |-> mds_process_stream(sp[1], cp[1], rd, hr).ret,
        run |-> <<mds_process_stream(sp[1], cp[1], rd, hr)>>]

mds_process_stream_from_bytes_args(sp, cp, buffer, hr) ==
  IF sp = <<>> \/ cp = <<>> THEN [ret |-> -EINVAL, run |-> <<>>]
  ELSE [ret |-> mds_process_stream_from_bytes(sp[1], cp[1], buffer, hr).ret,
        run |-> <<mds_process_stream_from_bytes(sp[1], cp[1], buffer, hr)>>]

\* a session over backend 1 with a callback registered
InitEntry ==
  /\ sessions = [s \in SessionIds |->
                   IF s = E2ESession
                   THEN mds_set_upload_callback(mds_session_create(1), "cb1", "ctx1")
                   ELSE FreeSession]
  /\ backends = [b \in BackendIds |-> [destroyed |-> 0, queue |-> <<>>]]
  /\ last = NoCall
  /\ hookLog = <<>>
  /\ obtained = <<>>
  /\ prevSeq = [s \in SessionIds |-> -1]
  /\ delivered = 0
  /\ faulted = FALSE
  /\ UploaderInit

\* a call that returned at its argument check; arg: session is NULL, config
\* is NULL
Refused(op, ret, null_s, null_c) ==
  /\ last' = [Call(op, E2ESession) EXCEPT !.ret = ret, !.arg = <<null_s, null_c>>]
  /\ UNCHANGED <<sessions, backends, hookLog, obtained, prevSeq, delivered>>

EntryProcessStream ==
  /\ \E null_s \in BOOLEAN, null_c \in BOOLEAN, cfg \in Configs, hr \in HookResults,
        rd \in ReadOutcomes(sessions[E2ESession].backend) :
       LET sp == IF null_s THEN <<>> ELSE <<sessions[E2ESession]>>
           cp == IF null_c THEN <<>> ELSE <<cfg>>
           c == mds_process_stream_args(sp, cp, rd, hr)
       IN  IF c.run = <<>>
           THEN Refused("process_stream", c.ret, null_s, null_c)
           ELSE /\ Processed("process_stream", E2ESession, c.run[1], hr, rd.kind,
                             <<null_s, null_c>>)
                /\ backends' = [backends EXCEPT
                                  ![sessions[E2ESession].backend].queue = rd.queue]
                /\ obtained' = IF rd.ret >= 1
                                THEN Append(obtained, <<E2ESession, Tail(rd.data)>>)
                                ELSE obtained
                /\ UNCHANGED delivered
  /\ UNCHANGED faulted
  /\ UNCHANGED uvars

EntryProcessBytes ==
  /\ delivered < MaxUploads
  /\ \E null_s \in BOOLEAN, null_c \in BOOLEAN, cfg \in Configs, hr \in HookResults,
        buf \in E2EBuffers :
       LET sp == IF null_s THEN <<>> ELSE <<sessions[E2ESession]>>
           cp == IF null_c THEN <<>> ELSE <<cfg>>
           c == mds_process_stream_from_bytes_args(sp, cp, buf, hr)
       IN  IF c.run = <<>>
           THEN Refused("process_bytes", c.ret, null_s, null_c)
           ELSE /\ Processed("process_bytes", E2ESession, c.run[1], hr, "none",
                             <<null_s, null_c>>)
                /\ obtained' = Append(obtained, <<E2ESession, Tail(buf)>>)
                /\ delivered' = delivered + 1
                /\ UNCHANGED backends
  /\ UNCHANGED faulted
  /\ UNCHANGED uvars

NextEntry == E2EDeviceSend \/ EntryProcessStream \/ EntryProcessBytes

SpecEntry == InitEntry /\ [][NextEntry]_vars

(***************************************************************************)
(* The HID backend's read operation (mds_backend_hid.c): the device holds  *)
(* a stream of input reports, each <<report id, bytes>>, and its feature   *)
(* reports                                                                 *)
(***************************************************************************)
\* input reports the device may queue: stream data, and a report with
\* another identifier (an echoed output report)
InputReports == {<<MDS_REPORT_ID_STREAM_DATA, <<0, 170>>>>,
                 <<MDS_REPORT_ID_STREAM_DATA, <<1, 187>>>>,
                 <<2, <<9, 9>>>>}
\* the device's feature reports, by identifier
FeatureReports ==
  [id \in 1..5 |-> IF id = MDS_REPORT_ID_SUPPORTED_FEATURES THEN <<0, 0, 0, 0>>
                   ELSE <<64 + id, 0>>]
\* timeouts a caller passes: block, do not wait, wait 100 ms
ReadTimeouts == {-1, 0, 100}

\* memfault_hid_read_report with a timeout: the oldest input report with its
\* identifier, or an I/O failure that consumes nothing; with nothing queued,
\* the timeout error after a bounded wait, zero bytes when not waiting, and
\* no return when blocking
memfault_hid_read_input(bk, timeout_ms) ==
  LET q == bk.queue
  IN  {[data |-> <<>>, id |-> 0, kind |-> "io", queue |-> q,
        ret |-> MEMFAULT_HID_ERROR_IO]}
      \cup (IF q # <<>>
            THEN {[data |-> Head(q)[2], id |-> Head(q)[1], kind |-> "data",
                   queue |-> Tail(q), ret |-> Len(Head(q)[2])]}
            ELSE IF timeout_ms > 0
            THEN {[data |-> <<>>, id |-> 0, kind |-> "timeout", queue |-> q,
                   ret |-> MEMFAULT_HID_ERROR_TIMEOUT]}
            ELSE IF timeout_ms = 0
            THEN {[data |-> <<>>, id |-> 0, kind |-> "empty", queue |-> q, ret |-> 0]}
            ELSE {})

\* memfault_hid_get_feature_report: the feature report, or an I/O failure;
\* the input reports stay queued
memfault_hid_get_feature_report(bk, report_id) ==
  {[data |-> <<>>, id |-> 0, kind |-> "io", queue |-> bk.queue,
    ret |-> MEMFAULT_HID_ERROR_IO],
   [data |-> FeatureReports[report_id], id |-> report_id, kind |-> "feature",
    queue |-> bk.queue, ret |-> Len(FeatureReports[report_id])]}

\* hid_backend_read as a whole: what a read of report_id with timeout_ms
\* may return
hid_backend_read_any(bk, report_id, timeout_ms) ==
  IF report_id = 6
  THEN {hid_backend_read(r, report_id) : r \in memfault_hid_read_input(bk, timeout_ms)}
  ELSE memfault_hid_get_feature_report(bk, report_id)

\* the device queues an input report
HidDeviceQueue ==
  /\ delivered < MaxPackets
  /\ \E rep \in InputReports :
       backends' = [backends EXCEPT ![1].queue = Append(@, rep)]
  /\ delivered' = delivered + 1
  /\ UNCHANGED <<sessions, last, hookLog, obtained, prevSeq, faulted>>
  /\ UNCHANGED uvars

\* a read through the backend; obtained: the stream reports handed to the
\* caller
HidBackendRead ==
  /\ \E report_id \in 1..6, timeout_ms \in ReadTimeouts :
       \E r \in hid_backend_read_any(backends[1], report_id, timeout_ms) :
         /\ last' = [NoCall EXCEPT !.op = "backend_read", !.ret = r.ret,
                       !.arg = <<report_id, timeout_ms, backends[1].queue>>,
                       !.out = r.data, !.rdkind = r.kind]
         /\ backends' = [backends EXCEPT ![1].queue = r.queue]
         /\ obtained' = IF report_id = 6 /\ r.ret > 0
                         THEN Append(obtained, <<report_id, r.data>>)
                         ELSE obtained
  /\ UNCHANGED <<sessions, hookLog, prevSeq, delivered, faulted>>
  /\ UNCHANGED uvars

NextRead == HidDeviceQueue \/ HidBackendRead

SpecRead == Init /\ [][NextRead]_vars

(***************************************************************************)
(* The gateway loop of test_mds_e2e.c (step 7): the device has queued its  *)
(* stream reports when streaming was enabled, and the loop calls           *)
(* mds_process_stream until it has max_chunks chunks, has seen             *)
(* max_timeouts timeouts in a row, or gets another error                   *)
(***************************************************************************)
MaxQueued == 6     \* stream reports the device queues before the loop starts

max_chunks == 5
max_timeouts == 10

\* the values a loop compares a result with to recognise a timeout: the
\* documented -ETIMEDOUT and the HID layer's timeout error
TimeoutCodes == {-ETIMEDOUT, MEMFAULT_HID_ERROR_TIMEOUT}

\* the i-th report the device queues: the sequence counter's low five bits,
\* then the chunk
MockPacket(i) == <<BitAnd(i - 1, MDS_SEQUENCE_MASK), 100 + i>>

\* variant: the count of consecutive timeouts starts over at the limit
gateway_loop_wraps(l, ret) ==
  IF ret = 0
  THEN [l EXCEPT !.chunks_processed = @ + 1, !.timeout_count = 0]
  ELSE IF ret = l.timeout_code
       THEN [l EXCEPT !.timeout_count = (@ + 1) % max_timeouts]
       ELSE [l EXCEPT !.pc = "stopped"]

\* the body of the loop after mds_process_stream returned ret
gateway_loop(l, ret) ==
  IF ret = 0
  THEN [l EXCEPT !.chunks_processed = @ + 1, !.timeout_count = 0]
  ELSE IF ret = l.timeout_code
       THEN [l EXCEPT !.timeout_count = @ + 1]
       ELSE [l EXCEPT !.pc = "stopped"]

\* the loop's condition
LoopCondition(l) ==
  l.chunks_processed < max_chunks /\ l.timeout_count < max_timeouts

InitLoop ==
  /\ \E n \in 0..MaxQueued, cfg \in E2EConfigs, code \in TimeoutCodes :
       /\ backends = [b \in BackendIds |->
                        [destroyed |-> 0,
                         queue |-> IF b = 1 THEN [i \in 1..n |-> MockPacket(i)]
                                   ELSE <<>>]]
       /\ delivered = n
       /\ loop = [NoLoop EXCEPT !.config = cfg, !.pc = "running", !.queued = n,
                                !.timeout_code = code]
  /\ sessions = [s \in SessionIds |->
                   IF s = E2ESession
                   THEN mds_stream_enable(
                          mds_set_upload_callback(mds_session_create(1),
                                                  UploaderHook.fn, UploaderHook.ud),
                          1).sess
                   ELSE FreeSession]
  /\ last = NoCall
  /\ hookLog = <<>>
  /\ obtained = <<>>
  /\ prevSeq = [s \in SessionIds |-> -1]
  /\ faulted = FALSE
  /\ uploader = chunks_uploader_create
  /\ http = [last |-> <<>>, requests |-> 0, uris |-> <<>>]
  /\ tally = [bytes |-> 0, calls |-> 0, failed |-> 0, lens |-> {}, ok |-> 0]

\* one iteration: mds_process_stream with the loop's configuration, then
\* the loop's bookkeeping
LoopIterate ==
  /\ loop.pc = "running" /\ LoopCondition(loop)
  /\ \E rd \in ReadOutcomes(sessions[E2ESession].backend), net \in E2ENetOutcomes :
       LET sess == sessions[E2ESession]
           cfg == loop.config
           st0 == [http |-> http, ret |-> 0, uploader |-> uploader]
           hr == UploadAll(st0, mds_process_stream(sess, cfg, rd, 0).hookCalls, net).ret
           r == mds_process_stream(sess, cfg, rd, hr)
           st == UploadAll(st0, r.hookCalls, net)
       IN  /\ Processed("process_stream", E2ESession, r, hr, rd.kind,
                        <<cfg.data_uri, cfg.authorization>>)
           /\ backends' = [backends EXCEPT ![sess.backend].queue = rd.queue]
           /\ obtained' = IF rd.ret >= 1
                           THEN Append(obtained, <<E2ESession, Tail(rd.data)>>)
                           ELSE obtained
           /\ uploader' = st.uploader
           /\ http' = st.http
           /\ tally' = [tally EXCEPT
                          !.ok = @ + (IF r.ret = 0 THEN 1 ELSE 0),
                          !.failed = @ + (IF r.hookCalls # <<>> /\ r.ret < 0 THEN 1 ELSE 0)]
           /\ loop' = [gateway_loop(loop, r.ret) EXCEPT
                         !.io = @ + (IF rd.kind = "io" THEN 1 ELSE 0)]
  /\ UNCHANGED <<delivered, faulted>>

\* the loop's condition no longer holds
LoopExit ==
  /\ loop.pc = "running" /\ ~LoopCondition(loop)
  /\ loop' = [loop EXCEPT !.pc = "stopped"]
  /\ UNCHANGED <<sessions, backends, last, hookLog, obtained, prevSeq, delivered,
                 faulted, uploader, http, tally>>

NextLoop == LoopIterate \/ LoopExit

\* the loop is a sequential program: while it runs, it takes its next step
SpecLoop == InitLoop /\ [][NextLoop]_vars /\ WF_vars(NextLoop)

(***************************************************************************)
(* Properties                                                              *)
(***************************************************************************)
IsProcessing == last.op \in {"process_stream", "process_bytes"}
HookSet(s) == sessions[s].upload_callback # "NULL"
Expected(p) == (p + 1) % 32
\* the packet of the last call is a gap or a duplicate after its predecessor
Anomaly == last.prev # -1 /\ last.seq # Expected(last.prev)

\* C1: a processed packet whose sequence is (p + 1) mod 32, p being the
\* sequence of the packet the session received before it, raises no sequence
\* diagnostic; a diagnostic is raised only for a gap or a duplicate relative
\* to that previous packet.
C1_InOrderRaisesNoDiagnostic ==
  (IsProcessing /\ last.got) =>
    /\ (last.prev # -1 /\ last.seq = Expected(last.prev)) => ~last.diag
    /\ last.diag => Anomaly

\* C2: sequence validation of a processed packet is skipped if and only if
\* the session received no packet before it; every later packet (also the
\* one after a packet with sequence 31) is validated against its predecessor.
C2_ValidationSkippedIffFirstPacket ==
  (IsProcessing /\ last.got) =>
    /\ (last.vprev = -1) <=> (last.prev = -1)
    /\ (last.vprev # -1) => (last.vprev = last.prev)

\* C3: for all prev, new in 0..31, mds_validate_sequence(prev, new) holds
\* exactly when new = (prev + 1) mod 32 (30->31, 31->0, 0->1 valid; 5->7 and
\* 10->10 invalid).
C3_ValidateIffSuccessor ==
  (last.op = "validate") => ((last.ret = 1) <=> (last.seq = (last.prev + 1) % 32))

C3_Witness == last.op = "validate" /\ last.prev = 31 /\ last.seq = 0 /\ last.ret = 1

\* C4: a gap or a duplicate is not fatal: the call still stores the new
\* sequence in last_sequence, still invokes the upload callback once if one
\* is set, and returns what an in-order receive returns (0 unless the
\* callback fails).
C4_AnomalyNotFatal ==
  (IsProcessing /\ last.got /\ Anomaly) =>
    /\ sessions[last.s].last_sequence = last.seq
    /\ Len(last.hookCalls) = (IF HookSet(last.s) THEN 1 ELSE 0)
    /\ last.ret = (IF HookSet(last.s) /\ last.hr < 0 THEN last.hr ELSE 0)

C4_Witness ==
  /\ last.op = "process_bytes" /\ last.got
  /\ last.prev = 0 /\ last.seq = 31 /\ last.diag
  /\ Len(last.hookCalls) = 1 /\ last.hr = 0 /\ last.ret = 0

\* C5: with a callback set, every processing call that obtains a packet
\* invokes the callback exactly once with that packet, in the order of the
\* calls; a call that obtains no packet invokes none; nothing is retried.
C5_HookOncePerPacketInOrder ==
  /\ hookLog = obtained
  /\ IsProcessing =>
       Len(last.hookCalls) = (IF last.got /\ HookSet(last.s) THEN 1 ELSE 0)

C5_Witness ==
  /\ last.op = "process_stream" /\ last.got /\ last.ret = 0
  /\ Len(hookLog) = 2 /\ hookLog[1][2] # hookLog[2][2]

\* C6 (as stated): with a callback set, a processing call that received a
\* packet returns the callback's result, whatever non-zero value it is.
C6_ReturnsHookResult ==
  (IsProcessing /\ last.got /\ HookSet(last.s)) => last.ret = last.hr

\* C6 (amended): with a callback set, a processing call that received a
\* packet returns the callback's result when it is negative, and 0 when the
\* callback returns 0 or a positive value.
C6_ReturnsNegativeHookResult ==
  (IsProcessing /\ last.got /\ HookSet(last.s)) =>
    last.ret = (IF last.hr < 0 THEN last.hr ELSE 0)

C6_Witness ==
  IsProcessing /\ last.got /\ Len(last.hookCalls) = 1 /\ last.hr < 0 /\ last.ret = last.hr

\* C7: a failing callback leaves the session intact: last_sequence is the
\* sequence of the packet just received, streaming_enabled, the callback and
\* the backend are untouched, and the next in-order packet is processed
\* without a sequence diagnostic.
C7_FailedUploadKeepsSession ==
  [][(IsProcessing' /\ last'.got /\ last'.ret < 0) =>
       LET s == last'.s
       IN  /\ sessions'[s].last_sequence = last'.seq
           /\ sessions'[s].streaming_enabled = sessions[s].streaming_enabled
           /\ sessions'[s].upload_callback = sessions[s].upload_callback
           /\ sessions'[s].upload_user_data = sessions[s].upload_user_data
           /\ sessions'[s].backend = sessions[s].backend
           /\ \A b \in BackendIds : backends'[b].destroyed = backends[b].destroyed
           /\ (IsProcessing /\ last.got /\ last.s = s
               /\ last'.seq = Expected(last.seq)) => ~last'.diag]_vars

\* the step is mds_session_destroy(s) returning
DestroyStep(s) == Live(s) /\ sessions'[s].state = "freed"

\* C8: destroying a session created over backend B invokes B's destroy
\* operation exactly once and no other backend's, whatever calls preceded;
\* so each backend's destroy count is the number of destroyed sessions that
\* were created over it.
C8_DestroyReleasesOwnBackendOnce ==
  /\ [](\A b \in BackendIds :
          backends[b].destroyed =
            Cardinality({s \in SessionIds : sessions[s].state = "freed"
                                            /\ sessions[s].backend = b}))
  /\ [][\A s \in SessionIds :
          (DestroyStep(s) /\ sessions[s].backend # NULL) =>
            \A b \in BackendIds :
              backends'[b].destroyed =
                backends[b].destroyed + (IF b = sessions[s].backend THEN 1 ELSE 0)]_vars

C8_Witness ==
  /\ last.op = "destroy" /\ sessions[last.s].backend # NULL
  /\ backends[sessions[last.s].backend].destroyed = 1
  /\ Len(hookLog) >= 1

\* C9: mds_session_destroy issues the disable write iff streaming_enabled is
\* true at that moment, issues it before the backend's destroy operation,
\* ignores its failure, always ends with the destroy operation, and the freed
\* session issues nothing afterwards.
C9_DestroyDisablesThenReleases ==
  [][\A s \in SessionIds :
       DestroyStep(s) =>
         /\ last'.op = "destroy" /\ last'.s = s
         /\ last'.trace =
              (IF sessions[s].streaming_enabled
               THEN <<ControlWrite(MDS_STREAM_MODE_DISABLED)>> ELSE <<>>)
              \o (IF sessions[s].backend # NULL THEN <<[op |-> "destroy"]>> ELSE <<>>)
         /\ ~Live(s)']_vars

C9_Witness ==
  /\ last.op = "destroy" /\ last.wret < 0
  /\ last.trace = <<ControlWrite(MDS_STREAM_MODE_DISABLED), [op |-> "destroy"]>>
  /\ backends[sessions[last.s].backend].destroyed = 1

\* C10: every backend is held by at most one live session, and no backend's
\* destroy operation runs more than once.
C10_BackendOwnedByOneSession ==
  /\ \A s1, s2 \in SessionIds :
       (s1 # s2 /\ Live(s1) /\ Live(s2) /\ sessions[s1].backend # NULL)
         => sessions[s1].backend # sessions[s2].backend
  /\ \A b \in BackendIds : backends[b].destroyed <= 1

\* the step is a stream-control call on session s that returned
ControlStep(s) == last'.op \in {"enable", "disable"} /\ last'.s = s

\* C11: a stream-control call whose backend write fails returns the write's
\* error and leaves streaming_enabled, last_sequence and the callback as they
\* were; one whose write succeeds returns 0 and sets streaming_enabled to the
\* mode written; no other step of a live session changes streaming_enabled,
\* which is false in a new session.
C11_ControlFailureKeepsState ==
  [][\A s \in SessionIds :
       /\ (~Live(s) /\ Live(s)') => ~sessions'[s].streaming_enabled
       /\ (Live(s) /\ Live(s)') =>
         /\ (ControlStep(s) /\ last'.wret < 0) =>
               (last'.ret = last'.wret /\ sessions'[s] = sessions[s])
         /\ (ControlStep(s) /\ last'.wret >= 0) =>
               /\ last'.ret = 0
               /\ sessions'[s].streaming_enabled = (last'.op = "enable")
         /\ (sessions'[s].streaming_enabled # sessions[s].streaming_enabled) =>
               (ControlStep(s) /\ last'.wret >= 0)]_vars

C11_Witness ==
  /\ last.op = "enable" /\ last.wret < 0 /\ last.ret = MEMFAULT_HID_ERROR_IO
  /\ ~sessions[last.s].streaming_enabled
  /\ sessions[last.s].upload_callback # "NULL"
  /\ sessions[last.s].last_sequence = 1

\* C20: mds_stream_enable issues exactly one backend operation, a write of
\* the single byte 1 to report 0x05, and mds_stream_disable exactly one write
\* of the single byte 0 to report 0x05; neither reads nor writes anything else.
C20_ControlWritesOneModeByte ==
  /\ (last.op = "enable") =>
        last.trace = <<[data |-> <<1>>, id |-> 5, op |-> "write"]>>
  /\ (last.op = "disable") =>
        last.trace = <<[data |-> <<0>>, id |-> 5, op |-> "write"]>>

C20_Witness ==
  /\ last.op = "disable" /\ last.ret = 0 /\ last.wret = 1
  /\ Len(last.trace) = 1 /\ last.trace[1].data = <<0>>

\* the step is a call of mds_process_stream_from_bytes that returned (the
\* other step that counts a delivered report, the device queueing one, makes
\* a queue longer)
BytesStep ==
  /\ last'.op = "process_bytes" /\ delivered' = delivered + 1
  /\ \A b \in BackendIds : Len(backends'[b].queue) <= Len(backends[b].queue)

\* C14: mds_process_stream_from_bytes issues no backend read, write or
\* destroy: its trace of backend operations is empty, every backend's queue
\* and destroy count are as before the call, and the call does not abort,
\* also on a session created over no backend.
C14_FromBytesLeavesBackendAlone ==
  [][BytesStep =>
       /\ last'.trace = <<>>
       /\ backends' = backends
       /\ ~faulted']_vars

C14_Witness ==
  /\ last.op = "process_bytes" /\ last.got /\ last.ret = 0
  /\ sessions[last.s].backend = NULL
  /\ Len(last.hookCalls) = 1

\* a processing call ran while its backend still held a queued report
C14_WitnessQueued ==
  /\ last.op = "process_bytes" /\ last.got
  /\ sessions[last.s].backend # NULL
  /\ backends[sessions[last.s].backend].queue # <<>>

\* the last call read the stream-data report and the wait ended with no data
TimedOut ==
  last.op \in {"read_packet", "process_stream"} /\ last.rdkind = "timeout"

\* C15: when no stream-data report arrives within the timeout,
\* mds_stream_read_packet and mds_process_stream return -ETIMEDOUT, which is
\* no other I/O failure's value.
C15_TimeoutReturnsETIMEDOUT ==
  /\ TimedOut => last.ret = -ETIMEDOUT
  /\ (last.op \in {"read_packet", "process_stream"} /\ last.rdkind = "io") =>
        last.ret # -ETIMEDOUT

HidCreateOps == {"create_hid", "create_hid_path"}

\* C12: a HID session constructor whose backend construction fails returns
\* that error, writes no session pointer, issues no backend operation and
\* leaves no backend structure allocated; one whose backend was constructed
\* but whose session allocation fails returns an error, writes no session
\* pointer and invokes the new backend's destroy operation exactly once; a
\* failed constructor adds no session.
C12_FailedHidCreateOwesNothing ==
  /\ [](last.op \in HidCreateOps =>
          /\ (last.arg[1] /\ last.out.hbret < 0) =>
                /\ last.ret = last.out.hbret /\ ~last.out.written
                /\ last.trace = <<>> /\ last.out.held = 0
          /\ (last.arg[1] /\ last.out.hbret >= 0 /\ ~last.arg[5]) =>
                /\ last.ret < 0 /\ ~last.out.written
                /\ last.trace = <<[op |-> "destroy"]>> /\ last.out.held = 0
          /\ (last.ret < 0) <=> ~last.out.written)
  /\ [][(last'.op \in HidCreateOps /\ last' # last /\ last'.ret < 0) =>
          /\ sessions' = sessions
          /\ \A b \in BackendIds :
                backends'[b].destroyed - backends[b].destroyed \in {0, Len(last'.trace)}]_vars

C12_Witness ==
  /\ last.op = "create_hid" /\ last.out.hbret = 0 /\ last.ret = -ENOMEM
  /\ last.trace = <<[op |-> "destroy"]>>
  /\ \E b \in BackendIds : backends[b].destroyed = 1
  /\ \A s \in SessionIds : ~Live(s)

\* the backend construction itself failed
C12_WitnessOpenFailed ==
  /\ last.op = "create_hid_path" /\ last.ret = MEMFAULT_HID_ERROR_NOT_FOUND
  /\ last.out.held = 0 /\ ~last.out.written

\* C13: delivering the same reports through mds_process_stream and through
\* mds_process_stream_from_bytes gives, report by report, the same return
\* value, the same last_sequence, the same sequence diagnostic and the same
\* callback invocations.
C13_PullAndPushAgree ==
  /\ sessions[PullSession].last_sequence = sessions[PushSession].last_sequence
  /\ (last.op = "twin") =>
        /\ last.ret = last.out.ret
        /\ last.got = last.out.got
        /\ last.diag = last.out.diag
        /\ last.hookCalls = last.out.hookCalls

\* C16: mds_read_device_config issues its reads in the order 0x01, 0x02,
\* 0x03, 0x04; the first read that returns an error ends the call, which
\* returns that error unchanged and issues no later read; with no failing
\* read all four are issued and the call returns 0.  (A features read that
\* returns fewer than 4 bytes has not failed: the call then ends after it.)
C16_ConfigReadsInOrderUntilFailure ==
  (last.op = "read_device_config") =>
    LET rds == last.arg
        trace == last.out.trace
        fails == {i \in 1..4 : rds[i].ret < 0}
        short == rds[1].ret \in 0..3
    IN  /\ Len(trace) \in 1..4
        /\ \A i \in 1..Len(trace) : trace[i] = [id |-> i, op |-> "read"]
        /\ (fails # {} /\ ~short) =>
              LET first == CHOOSE i \in fails : \A j \in fails : i <= j
              IN  last.ret = rds[first].ret /\ Len(trace) = first
        /\ (fails = {} /\ ~short) => (last.ret = 0 /\ Len(trace) = 4)

C16_Witness ==
  /\ last.op = "read_device_config"
  /\ last.arg[1].ret = 4 /\ last.arg[2].ret = 3
  /\ last.arg[3].ret = MEMFAULT_HID_ERROR_TIMEOUT
  /\ last.arg[4].ret = MEMFAULT_HID_ERROR_IO
  /\ last.ret = MEMFAULT_HID_ERROR_TIMEOUT /\ Len(last.out.trace) = 3

StringAccessors == {"get_device_identifier", "get_data_uri", "get_authorization"}

\* C17: a string accessor given a report of n >= 0 bytes and a destination
\* of max_len >= 1 bytes returns 0 and stores the first min(n, max_len - 1)
\* bytes of the report followed by a zero byte; it writes at most max_len
\* bytes, so an over-long value is truncated and nothing lands past the
\* destination.
C17_StringTruncatedAndTerminated ==
  (last.op \in StringAccessors /\ last.arg.ret >= 0) =>
    LET n == last.arg.ret
        m == last.arg.max_len
        k == IF n < m - 1 THEN n ELSE m - 1
        str == last.out.str
    IN  /\ last.ret = 0
        /\ Len(str) = k + 1 /\ Len(str) <= m
        /\ \A i \in 1..k : str[i] = last.arg.data[i]
        /\ str[k + 1] = 0

C17_Witness ==
  /\ last.op = "get_device_identifier"
  /\ last.arg.ret = 64 /\ last.arg.max_len = 64
  /\ Len(last.out.str) = 64 /\ last.out.str[63] = last.arg.data[63]
  /\ last.out.str[64] = 0

\* C18: decoding a buffer of L >= 1 bytes succeeds with sequence = byte 0
\* mod 32 (so bits 5-7 of byte 0 do not matter), data_len = min(L - 1, 63)
\* and data = the data_len bytes after byte 0; decoding an empty buffer
\* returns -EINVAL.
C18_DecodeStreamPacket ==
  (last.op = "parse") =>
    LET buf == last.arg
        L == Len(buf)
        pkt == last.out
    IN  IF L = 0 THEN last.ret = -22
        ELSE /\ last.ret = 0
             /\ pkt.sequence = buf[1] % 32
             /\ pkt.data_len = (IF L - 1 < 63 THEN L - 1 ELSE 63)
             /\ Len(pkt.data) = pkt.data_len
             /\ \A i \in 1..pkt.data_len : pkt.data[i] = buf[i + 1]

C18_Witness ==
  /\ last.op = "parse" /\ last.arg = <<3, 170, 187>>
  /\ last.out.sequence = 3 /\ last.out.data = <<170, 187>>
  /\ last.out.data_len = 2

\* a buffer longer than 64 bytes with reserved bits set in byte 0
C18_WitnessClamped ==
  /\ last.op = "parse" /\ Len(last.arg) = 66 /\ last.arg[1] = 227
  /\ last.out.sequence = 3 /\ last.out.data_len = 63

\* C19: mds_get_supported_features on four bytes b0..b3 returns 0 and yields
\* b0 + 2^8*b1 + 2^16*b2 + 2^24*b3, a value below 2^32 (low half b0 + 2^8*b1,
\* high half b2 + 2^8*b3); on fewer than 4 bytes it returns -EINVAL and on a
\* failed read the read's error, in both cases without writing the output.
C19_FeaturesLittleEndian ==
  (last.op = "get_supported_features") =>
    LET rd == last.arg
        b == rd.data
    IN  IF rd.ret < 0 THEN last.ret = rd.ret /\ ~last.out.written
        ELSE IF rd.ret < 4 THEN last.ret = -22 /\ ~last.out.written
        ELSE /\ last.ret = 0 /\ last.out.written
             /\ last.out.features.lo = b[1] + 256 * b[2]
             /\ last.out.features.hi = b[3] + 256 * b[4]
             /\ last.out.features.hi < 65536
             /\ (b = <<0, 0, 0, 0>>) =>
                   (last.out.features.lo = 0 /\ last.out.features.hi = 0)

C19_Witness ==
  /\ last.op = "get_supported_features" /\ last.arg.ret = 4
  /\ last.arg.data = <<1, 128, 0, 255>>
  /\ last.out.features = [hi |-> 65280, lo |-> 32769]

\* C21: mds_set_upload_callback stores the callback and the user data it is
\* given and changes nothing else (streaming_enabled, last_sequence, the
\* backend and every other object keep their values); while no callback is
\* registered, a processing call that decodes a packet returns 0, leaves
\* last_sequence at the packet's sequence and invokes no callback.
ProcessingOps == {"process_stream", "process_bytes"}

C21_SetCallbackOnlyReplacesHook ==
  /\ []((last.op \in ProcessingOps /\ last.got
            /\ sessions[last.s].upload_callback = "NULL") =>
          /\ last.ret = 0
          /\ last.hookCalls = <<>>
          /\ sessions[last.s].last_sequence = last.seq)
  /\ [][(last'.op = "set_callback" /\ delivered' = delivered) =>
          LET s == last'.s
          IN  /\ sessions'[s].upload_callback = last'.arg[1]
              /\ sessions'[s].upload_user_data = last'.arg[2]
              /\ sessions' = [sessions EXCEPT
                                ![s].upload_callback = last'.arg[1],
                                ![s].upload_user_data = last'.arg[2]]
              /\ UNCHANGED <<backends, hookLog, obtained, prevSeq, faulted>>]_vars

\* a chunk was forwarded, the callback was then cleared, and the next packet
\* is received without being forwarded
C21_Witness ==
  /\ last.op \in ProcessingOps /\ last.got /\ last.ret = 0
  /\ last.hookCalls = <<>> /\ last.prev # -1
  /\ Len(hookLog) = 1 /\ hookLog[1][1] = last.s
  /\ sessions[last.s].upload_callback = "NULL"
  /\ sessions[last.s].streaming_enabled
  /\ sessions[last.s].last_sequence = last.seq

(***************************************************************************)
(* The uploader's statistics                                               *)
(***************************************************************************)
\* the step is an invocation of chunks_uploader_callback
CallbackStep == last'.op = "uploader_callback" /\ tally'.calls = tally.calls + 1

\* inputs of the invocation that last records
HeaderOf(l) == l.arg[2]
ChunkOf(l) == l.arg[3]
StatusOf(l) == IF l.arg[4].response = <<>> THEN 0 ELSE l.arg[4].response[1]
Delivered(l) ==
  FirstColon(HeaderOf(l)) # 0 /\ l.arg[4].ok /\ HttpSuccess(StatusOf(l))
Undelivered(l) ==
  FirstColon(HeaderOf(l)) # 0 /\ (~l.arg[4].ok \/ ~HttpSuccess(StatusOf(l)))

\* C22: an invocation of chunks_uploader_callback whose request completes
\* with a 2xx status adds 1 to chunks_uploaded and the chunk's length to
\* bytes_uploaded, stores the status in last_http_status, leaves
\* upload_failures as it was and returns 0; since the statistics were last
\* zero, chunks_uploaded is the number k of such invocations, and
\* bytes_uploaded is k*n when every chunk of them had n bytes.
C22_SuccessCountsChunkAndBytes ==
  /\ [](/\ uploader.stats.chunks_uploaded = tally.ok
        /\ uploader.stats.bytes_uploaded = tally.bytes
        /\ \A n \in {Len(c) : c \in UploadChunks} :
             tally.lens = {n} => uploader.stats.bytes_uploaded = tally.ok * n)
  /\ [][(CallbackStep /\ Delivered(last')) =>
          /\ last'.ret = 0
          /\ uploader'.stats.chunks_uploaded = uploader.stats.chunks_uploaded + 1
          /\ uploader'.stats.bytes_uploaded =
               uploader.stats.bytes_uploaded + Len(ChunkOf(last'))
          /\ uploader'.stats.last_http_status = StatusOf(last')
          /\ uploader'.stats.upload_failures = uploader.stats.upload_failures]_vars

\* three 5-byte chunks delivered in a row, the last with status 202
C22_Witness ==
  /\ last.op = "uploader_callback" /\ last.ret = 0 /\ StatusOf(last) = 202
  /\ tally.ok = 3 /\ tally.lens = {5}
  /\ uploader.stats.chunks_uploaded = 3 /\ uploader.stats.bytes_uploaded = 15
  /\ uploader.stats.upload_failures = 0
  /\ uploader.stats.last_http_status = 202

\* C23: an invocation whose request fails in transport or is answered with
\* a status outside 2xx adds 1 to upload_failures, leaves chunks_uploaded
\* and bytes_uploaded as they were, stores the status observed (0 without a
\* response) in last_http_status and returns a negative value.
C23_FailureCountsAndRecordsStatus ==
  [][(CallbackStep /\ Undelivered(last')) =>
        /\ last'.ret < 0
        /\ uploader'.stats.upload_failures = uploader.stats.upload_failures + 1
        /\ uploader'.stats.chunks_uploaded = uploader.stats.chunks_uploaded
        /\ uploader'.stats.bytes_uploaded = uploader.stats.bytes_uploaded
        /\ uploader'.stats.last_http_status = StatusOf(last')]_vars

\* a delivery succeeded, the next one gets no response
C23_Witness ==
  /\ last.op = "uploader_callback" /\ last.ret < 0
  /\ Undelivered(last) /\ ~last.arg[4].ok
  /\ tally.ok = 1 /\ tally.failed = 1
  /\ uploader.stats.upload_failures = 1 /\ uploader.stats.chunks_uploaded = 1
  /\ uploader.stats.last_http_status = 0

\* a request answered with 404
C23_WitnessHttpError ==
  /\ last.op = "uploader_callback" /\ last.ret < 0 /\ StatusOf(last) = 404
  /\ uploader.stats.upload_failures = 1
  /\ uploader.stats.last_http_status = 404

\* C24: an invocation with an authorization header that has no colon
\* returns an error and adds 1 to upload_failures, performs no request, and
\* leaves chunks_uploaded and bytes_uploaded as they were.
C24_HeaderWithoutColonRejected ==
  [][(CallbackStep /\ FirstColon(HeaderOf(last')) = 0) =>
        /\ last'.ret < 0
        /\ uploader'.stats.upload_failures = uploader.stats.upload_failures + 1
        /\ http' = http
        /\ uploader'.stats.chunks_uploaded = uploader.stats.chunks_uploaded
        /\ uploader'.stats.bytes_uploaded = uploader.stats.bytes_uploaded]_vars

\* the first invocation, on a network that would answer 200
C24_Witness ==
  /\ last.op = "uploader_callback" /\ FirstColon(HeaderOf(last)) = 0
  /\ last.arg[4] = [ok |-> TRUE, response |-> <<200>>]
  /\ last.ret = -EINVAL
  /\ http.requests = 0 /\ tally.calls = 1
  /\ uploader.stats.upload_failures = 1 /\ uploader.stats.chunks_uploaded = 0

\* C25: chunks_uploaded, bytes_uploaded and upload_failures never decrease
\* in a step other than chunks_uploader_reset_stats, change only in
\* chunks_uploader_callback, and are all three zero after
\* chunks_uploader_reset_stats.
Counters(up) ==
  <<up.stats.chunks_uploaded, up.stats.bytes_uploaded, up.stats.upload_failures>>

C25_CountersMonotoneUntilReset ==
  [][/\ (last'.op # "uploader_reset_stats") =>
          \A i \in 1..3 : Counters(uploader')[i] >= Counters(uploader)[i]
     /\ (last'.op \notin {"uploader_reset_stats", "uploader_callback"}) =>
          Counters(uploader') = Counters(uploader)
     /\ (last'.op = "uploader_reset_stats") =>
          Counters(uploader') = <<0, 0, 0>>]_vars

\* statistics with a delivery and a failure are reset
C25_Witness ==
  /\ last.op = "uploader_reset_stats"
  /\ Counters(uploader) = <<0, 0, 0>>
  /\ http.requests = 2 /\ tally.calls = 3
  /\ uploader.timeout_ms = 60000 /\ uploader.verbose

\* C26: with the uploader registered as the session's callback, after any
\* sequence of mds_process_stream calls chunks_uploaded is the number of
\* calls that returned 0 and upload_failures the number of calls that
\* returned the uploader's error; a call that obtains no packet (timeout,
\* read failure) leaves the uploader as it was.
C26_StatsMatchProcessingResults ==
  /\ [](/\ uploader.stats.chunks_uploaded = tally.ok
        /\ uploader.stats.upload_failures = tally.failed)
  /\ [][(last'.op = "process_stream" /\ ~last'.got) =>
          (uploader' = uploader /\ http' = http)]_vars

\* one 5-byte chunk answered with status 202
C26_Witness ==
  /\ last.op = "process_stream" /\ last.ret = 0 /\ delivered = 1
  /\ uploader.stats = [bytes_uploaded |-> 5, chunks_uploaded |-> 1,
                       last_http_status |-> 202, upload_failures |-> 0]
  /\ http.requests = 1
  /\ http.last[1].uri = "https://x/y"
  /\ http.last[1].name = <<"K", "e", "y">>
  /\ http.last[1].value = <<"a", "b", "c">>
  /\ http.last[1].body = <<1, 2, 3, 4, 5>>

\* a timeout after a failed upload
C26_WitnessTimeout ==
  /\ last.op = "process_stream" /\ last.rdkind = "timeout" /\ last.ret < 0
  /\ tally.failed = 1 /\ uploader.stats.upload_failures = 1

\* C27: a successful mds_stream_read_packet stores the received packet's
\* sequence in last_sequence whether or not it continues the sequence
\* before, changes nothing else of the session and invokes no upload
\* callback; a failed one leaves the session as it was.
ReadStep == last'.op = "read_packet" /\ delivered' = delivered

C27_ReadPacketStoresSequence ==
  [][ReadStep =>
       LET s == last'.s
       IN  /\ hookLog' = hookLog
           /\ last'.hookCalls = <<>> /\ ~last'.diag
           /\ (last'.ret = 0) =>
                sessions' = [sessions EXCEPT ![s].last_sequence = last'.seq]
           /\ (last'.ret # 0) => (last'.ret < 0 /\ sessions' = sessions)]_vars

\* a packet out of sequence is read while a callback is registered
C27_Witness ==
  /\ last.op = "read_packet" /\ last.ret = 0
  /\ last.prev # -1 /\ ~mds_validate_sequence(last.prev, last.seq)
  /\ sessions[last.s].last_sequence = last.seq
  /\ sessions[last.s].upload_callback # "NULL"
  /\ hookLog = <<>>

\* a read that times out after a packet was received
C27_WitnessFailed ==
  /\ last.op = "read_packet" /\ last.rdkind = "timeout" /\ last.ret < 0
  /\ last.prev # -1 /\ sessions[last.s].last_sequence = last.prev

\* C28: a processing call that ends before a packet is decoded (failed or
\* timed-out read, report without a sequence byte, empty buffer pushed)
\* returns the error of the operation that failed, issues no second read,
\* invokes no callback and leaves the session (last_sequence,
\* streaming_enabled, callback and user data) as it was.
StreamStep == last'.op = "process_stream" /\ delivered' = delivered

C28_EarlyFailureReturnsErrorVerbatim ==
  [][/\ (StreamStep /\ ~last'.got) =>
          /\ last'.ret = (CASE last'.rdkind = "timeout" -> MEMFAULT_HID_ERROR_TIMEOUT
                            [] last'.rdkind = "io" -> MEMFAULT_HID_ERROR_IO
                            [] OTHER -> -EINVAL)
          /\ last'.trace = ReadTrace
          /\ last'.hookCalls = <<>> /\ hookLog' = hookLog
          /\ sessions' = sessions
     /\ (BytesStep /\ ~last'.got) =>
          /\ last'.ret = -EINVAL
          /\ last'.trace = <<>>
          /\ last'.hookCalls = <<>> /\ hookLog' = hookLog
          /\ sessions' = sessions]_vars

\* a read times out on a streaming session that forwarded a chunk before
C28_Witness ==
  /\ last.op = "process_stream" /\ ~last.got /\ last.rdkind = "timeout"
  /\ last.ret = MEMFAULT_HID_ERROR_TIMEOUT
  /\ Len(hookLog) = 1 /\ hookLog[1][1] = last.s
  /\ sessions[last.s].streaming_enabled
  /\ sessions[last.s].upload_callback # "NULL"
  /\ sessions[last.s].last_sequence = last.prev /\ last.prev # -1

\* an empty buffer is pushed
C28_WitnessEmptyBuffer ==
  /\ last.op = "process_bytes" /\ ~last.got /\ last.arg[3] = <<>>
  /\ last.ret = -EINVAL
  /\ sessions[last.s].upload_callback # "NULL"

\* C29: mds_stream_read_packet and the processing entry points leave
\* streaming_enabled as it is and do not depend on it: whenever one of them
\* decodes a packet, last_sequence becomes the packet's sequence and, for
\* the processing entry points, the registered callback is invoked once,
\* on a session that was never enabled or was disabled again as on a
\* streaming one.
C29_ProcessingIgnoresStreamingFlag ==
  /\ []((last.op \in ProcessingOps \cup {"read_packet"} /\ last.got) =>
          /\ sessions[last.s].last_sequence = last.seq
          /\ (last.op \in ProcessingOps
                /\ sessions[last.s].upload_callback # "NULL") =>
               Len(last.hookCalls) = 1)
  /\ [][(StreamStep \/ BytesStep \/ ReadStep) =>
          sessions'[last'.s].streaming_enabled = sessions[last'.s].streaming_enabled]_vars

\* a chunk is forwarded on a session whose streaming is not enabled
C29_Witness ==
  /\ last.op = "process_stream" /\ last.got /\ last.ret = 0
  /\ ~sessions[last.s].streaming_enabled
  /\ Len(last.hookCalls) = 1
  /\ sessions[last.s].last_sequence = last.seq

\* C30: the callback is invoked with the data URI and the authorization of
\* the configuration passed to the same call, the decoded payload and its
\* length, and the user data registered with the callback; the session has
\* no field for a configuration, and a later call given another
\* configuration delivers to that configuration's URI.
C30_HookGetsCallConfig ==
  (last.op \in ProcessingOps /\ last.hookCalls # <<>>) =>
    /\ Len(last.hookCalls) = 1
    /\ last.hookCalls[1].uri = last.arg[1]
    /\ last.hookCalls[1].auth = last.arg[2]
    /\ last.hookCalls[1].data = obtained[Len(obtained)][2]
    /\ last.hookCalls[1].len = Len(obtained[Len(obtained)][2])
    /\ last.hookCalls[1].fn = sessions[last.s].upload_callback
    /\ last.hookCalls[1].ud = sessions[last.s].upload_user_data
    /\ DOMAIN sessions[last.s] = {"backend", "last_sequence", "state",
                                  "streaming_enabled", "upload_callback",
                                  "upload_user_data"}
    /\ (sessions[last.s].upload_callback = UploaderHook.fn
          /\ FirstColon(last.arg[2]) # 0) =>
         http.uris[Len(http.uris)] = last.arg[1]

\* two successive calls with different configurations
C30_Witness ==
  /\ last.op = "process_stream" /\ last.ret = 0
  /\ last.arg = <<"https://x/z", <<"K", "e", "y", ":", "d">>>>
  /\ last.hookCalls[1].data = <<7, 8>> /\ last.hookCalls[1].len = 2
  /\ last.hookCalls[1].ud = "uploader"
  /\ http.uris = <<"https://x/y", "https://x/z">>
  /\ http.last[1].value = <<"d">>

C31_WitnessTimeouts ==
  /\ loop.pc = "stopped" /\ loop.timeout_count = max_timeouts
  /\ loop.chunks_processed = Min(loop.queued, max_chunks) /\ loop.queued > 0

\* more reports queued than the maximum: the loop stopped at the maximum
C31_WitnessMaximum ==
  /\ loop.pc = "stopped" /\ loop.queued > max_chunks
  /\ loop.chunks_processed = max_chunks

\* C32: chunks_uploaded + upload_failures equals the number of
\* chunks_uploader_callback invocations since the uploader was created or
\* its statistics were last reset: every invocation, one rejected before
\* any network call included, adds 1 to exactly one of the two counters.
C32_EveryInvocationCounted ==
  /\ [](uploader.stats.chunks_uploaded + uploader.stats.upload_failures
          = tally.ok + tally.failed)
  /\ [][CallbackStep =>
          \/ /\ uploader'.stats.chunks_uploaded = uploader.stats.chunks_uploaded + 1
             /\ uploader'.stats.upload_failures = uploader.stats.upload_failures
          \/ /\ uploader'.stats.chunks_uploaded = uploader.stats.chunks_uploaded
             /\ uploader'.stats.upload_failures = uploader.stats.upload_failures + 1]_vars

\* a success, an HTTP error and a rejected header, in three invocations
C32_Witness ==
  /\ last.op = "uploader_callback" /\ FirstColon(HeaderOf(last)) = 0
  /\ tally.calls = 3 /\ tally.ok = 1 /\ tally.failed = 2
  /\ http.requests = 2
  /\ uploader.stats.chunks_uploaded = 1 /\ uploader.stats.upload_failures = 2
  /\ uploader.stats.last_http_status = 404

C33_WitnessRead ==
  /\ last.op = "read_packet" /\ last.rdkind = "empty" /\ last.ret = -EINVAL
  /\ last.prev # -1 /\ sessions[last.s].last_sequence = last.prev

(***************************************************************************)
(* The output packet of the processing entry points                        *)
(***************************************************************************)
\* the packet that the bytes of a report decode to
Decoded(report, pkt) ==
  /\ pkt.sequence = BitAnd(report[1], MDS_SEQUENCE_MASK)
  /\ pkt.data = Tail(report)
  /\ pkt.data_len = Len(report) - 1

\* C34: a processing call that decodes a packet stores it in the caller's
\* output packet whatever the upload callback returns afterwards, so the
\* output holds the received packet also when the call returns the
\* callback's error; a call that fails before a packet is decoded does not
\* write the output.
C34_OutputPacketWrittenBeforeHook ==
  [][/\ (StreamStep /\ last'.got) =>
          /\ Len(last'.out) = 1
          /\ Decoded(Head(backends[sessions[last'.s].backend].queue), last'.out[1])
     /\ (BytesStep /\ last'.got) =>
          /\ Len(last'.out) = 1
          /\ Decoded(last'.arg[3], last'.out[1])
     /\ ((StreamStep \/ BytesStep) /\ ~last'.got) => last'.out = <<>>]_vars

\* the callback failed and the output holds the packet
C34_Witness ==
  /\ last.op = "process_stream" /\ last.got
  /\ Len(last.hookCalls) = 1 /\ last.hr < 0 /\ last.ret = last.hr
  /\ Len(last.out) = 1
  /\ last.out[1].sequence = 1 /\ last.out[1].data = <<187>>
  /\ last.out[1].data_len = 1

\* the same through the push entry point
C34_WitnessBytes ==
  /\ last.op = "process_bytes" /\ last.got
  /\ Len(last.hookCalls) = 1 /\ last.ret < 0
  /\ last.out[1].sequence = 31 /\ last.out[1].data = <<204>>

\* nothing decoded, nothing written
C34_WitnessUnwritten ==
  /\ last.op = "process_stream" /\ ~last.got /\ last.ret < 0 /\ last.out = <<>>
  /\ sessions[last.s].upload_callback # "NULL"

(***************************************************************************)
(* Partial results of mds_read_device_config                               *)
(***************************************************************************)
\* the i-th read of mds_read_device_config gave its accessor a value
ReadGave(rds, i) == IF i = 1 THEN rds[1].ret >= 4 ELSE rds[i].ret >= 0

\* C35: mds_read_device_config is not atomic: when its k-th read fails
\* (k = 1..4), the fields of the k - 1 earlier reads hold the values just
\* read (the features word, the strings with their terminator), and the
\* field of the failing read and those of the later reads are not written.
C35_ConfigFilledUpToFailure ==
  (last.op = "read_device_config") =>
    LET rds == last.arg
        cfg == last.out.config
        bad == {i \in 1..4 : ~ReadGave(rds, i)}
        k == IF bad = {} THEN 5 ELSE CHOOSE i \in bad : \A j \in bad : i <= j
        field == <<cfg.supported_features, cfg.device_identifier, cfg.data_uri,
                   cfg.authorization>>
    IN  /\ (k <= 4) = (last.ret < 0)
        /\ \A i \in 1..4 : (i >= k) => field[i] = <<>>
        /\ (1 < k) => field[1] = <<mds_get_supported_features(rds[1]).features>>
        /\ \A i \in 2..4 : (i < k) => field[i] = rds[i].data \o <<0>>

\* the third read fails: features and identifier are filled, URI and
\* authorization are not
C35_Witness ==
  /\ last.op = "read_device_config"
  /\ last.arg[1].ret = 4 /\ last.arg[2].ret = 3
  /\ last.arg[3].ret = MEMFAULT_HID_ERROR_IO /\ last.arg[4].ret = 3
  /\ last.ret = MEMFAULT_HID_ERROR_IO
  /\ last.out.config.supported_features # <<>>
  /\ last.out.config.device_identifier = <<65, 66, 67, 0>>
  /\ last.out.config.data_uri = <<>>
  /\ last.out.config.authorization = <<>>

(***************************************************************************)
(* Repeated stream-control calls                                           *)
(***************************************************************************)
\* C36: mds_stream_enable and mds_stream_disable do not look at the current
\* state: a call on a session that is already in the requested state still
\* issues its one stream-control write and returns the write's outcome, and
\* a second successful enable (or disable) leaves the session exactly as
\* the first one left it.
C36_ControlNeverShortCircuits ==
  /\ []((last.op \in {"enable", "disable"}) =>
          /\ Len(last.trace) = 1
          /\ last.trace[1] = ControlWrite(IF last.op = "enable"
                                          THEN MDS_STREAM_MODE_ENABLED
                                          ELSE MDS_STREAM_MODE_DISABLED)
          /\ last.ret = (IF last.wret < 0 THEN last.wret ELSE 0))
  /\ [][\A s \in SessionIds :
          (/\ Live(s) /\ Live(s)' /\ ControlStep(s) /\ last'.wret >= 0
           /\ last'.arg = <<sessions[s].streaming_enabled>>
           /\ sessions[s].streaming_enabled = (last'.op = "enable"))
          => sessions'[s] = sessions[s]]_vars

\* a second enable on a streaming session wrote the mode byte again
C36_Witness ==
  /\ last.op = "enable" /\ last.arg = <<TRUE>>
  /\ last.ret = 0 /\ last.wret = 1
  /\ last.trace = <<ControlWrite(MDS_STREAM_MODE_ENABLED)>>
  /\ sessions[last.s].streaming_enabled

\* a disable on a session that is not streaming wrote the mode byte too
C36_WitnessDisable ==
  /\ last.op = "disable" /\ last.arg = <<FALSE>>
  /\ last.ret = 0 /\ last.wret = 1
  /\ last.trace = <<ControlWrite(MDS_STREAM_MODE_DISABLED)>>
  /\ ~sessions[last.s].streaming_enabled

\* a repeated enable whose write fails reports the failure
C36_WitnessFailure ==
  /\ last.op = "enable" /\ last.arg = <<TRUE>>
  /\ last.ret = MEMFAULT_HID_ERROR_IO
  /\ sessions[last.s].streaming_enabled

(***************************************************************************)
(* The range of last_sequence                                              *)
(***************************************************************************)
\* the step is a receiving call on session s that decoded a packet
Received(s) ==
  (ReadStep \/ StreamStep \/ BytesStep) /\ last'.s = s /\ last'.got

\* byte 0 of the report that the receiving call of the step decoded
Byte0 ==
  IF last'.op = "process_bytes" THEN last'.arg[3][1]
  ELSE Head(backends[sessions[last'.s].backend].queue)[1]

\* C37: last_sequence of a session is always in 0..31: it is 31
\* (MDS_SEQUENCE_MAX) when the session is created, becomes the low five bits
\* of byte 0 of each packet received through mds_stream_read_packet,
\* mds_process_stream or mds_process_stream_from_bytes, and is changed by
\* nothing else.
C37_LastSequenceIsFiveBits ==
  /\ [](\A s \in SessionIds : Live(s) => sessions[s].last_sequence \in 0..31)
  /\ [][\A s \in SessionIds :
          /\ (~Live(s) /\ Live(s)') => sessions'[s].last_sequence = 31
          /\ (Live(s) /\ Live(s)') =>
               IF Received(s)
               THEN sessions'[s].last_sequence = Byte0 % 32
               ELSE sessions'[s].last_sequence = sessions[s].last_sequence]_vars

\* a pushed report whose byte 0 has a reserved bit set (0x21)
C37_Witness ==
  /\ last.op = "process_bytes" /\ last.got /\ last.arg[3] = <<33>>
  /\ sessions[last.s].last_sequence = 1

\* a report with sequence 0 read after others
C37_WitnessRead ==
  /\ last.op = "read_packet" /\ last.got /\ last.seq = 0 /\ last.prev = 31
  /\ sessions[last.s].last_sequence = 0

(***************************************************************************)
(* The HID backend's read                                                  *)
(***************************************************************************)
\* the step is a read through the backend (the device's own step counts a
\* queued report)
BackendReadStep == last'.op = "backend_read" /\ delivered' = delivered

\* inputs of the read that last records: identifier, timeout, and the input
\* reports queued when it was issued
ReadId == last.arg[1]
ReadTimeout == last.arg[2]
ReadQueue == last.arg[3]

\* C38: hid_backend_read serves report 0x06 from the input reports, with
\* the caller's timeout (nothing queued: the timeout error after a bounded
\* wait, zero bytes without waiting), and every other identifier as a
\* feature report, whatever the timeout and without touching the input
\* reports; a read of 0x06 that meets an input report with another
\* identifier returns MEMFAULT_HID_ERROR_IO, and that report is gone from
\* the queue: no later read hands it to the caller.
C38_BackendReadRoutesByReportId ==
  /\ [][BackendReadStep =>
          /\ ReadQueue' = backends[1].queue
          /\ (ReadId' = 6 /\ last'.rdkind # "io") =>
               IF ReadQueue' # <<>>
               THEN /\ backends'[1].queue = Tail(ReadQueue')
                    /\ last'.ret = (IF Head(ReadQueue')[1] = 6
                                    THEN Len(Head(ReadQueue')[2])
                                    ELSE MEMFAULT_HID_ERROR_IO)
               ELSE /\ backends'[1].queue = <<>>
                    /\ ReadTimeout' >= 0
                    /\ last'.ret = (IF ReadTimeout' > 0 THEN MEMFAULT_HID_ERROR_TIMEOUT
                                    ELSE 0)
          /\ (ReadId' # 6) =>
               /\ backends'[1].queue = ReadQueue'
               /\ last'.rdkind \in {"feature", "io"}
               /\ (last'.rdkind = "feature") =>
                    /\ last'.ret = Len(FeatureReports[ReadId'])
                    /\ last'.out = FeatureReports[ReadId']]_vars
  /\ [](\A i \in DOMAIN obtained : obtained[i] \in InputReports)

\* a read of 0x06 met a report with identifier 2: I/O error, report consumed,
\* the stream report behind it is next
C38_Witness ==
  /\ last.op = "backend_read" /\ ReadId = 6
  /\ ReadQueue = <<<<2, <<9, 9>>>>, <<6, <<0, 170>>>>>>
  /\ last.ret = MEMFAULT_HID_ERROR_IO
  /\ backends[1].queue = <<<<6, <<0, 170>>>>>>
  /\ obtained = <<>>

\* a feature read with a blocking timeout and nothing queued returns at once
C38_WitnessFeature ==
  /\ last.op = "backend_read" /\ ReadId = 3 /\ ReadTimeout = -1
  /\ ReadQueue = <<>> /\ last.ret = 2

\* a bounded wait on an empty stream times out
C38_WitnessTimeout ==
  /\ last.op = "backend_read" /\ ReadId = 6 /\ ReadTimeout = 100
  /\ ReadQueue = <<>> /\ last.ret = MEMFAULT_HID_ERROR_TIMEOUT

(***************************************************************************)
(* NULL arguments of the processing entry points                           *)
(***************************************************************************)
\* the step is a processing call (the device's own step counts a queued
\* report, a push that was accepted counts a pushed one)
RefusedStep ==
  /\ last'.op \in ProcessingOps /\ delivered' = delivered
  /\ last'.arg[1] \/ last'.arg[2]

\* C39: mds_process_stream (and mds_process_stream_from_bytes) called with
\* a NULL session or a NULL configuration returns -EINVAL before it issues
\* a backend read: the reports queued stay queued, no callback is invoked
\* and no session changes.
C39_NullArgumentsRefusedBeforeRead ==
  [][RefusedStep =>
       /\ last'.ret = -EINVAL
       /\ last'.trace = <<>> /\ ~last'.got
       /\ backends' = backends
       /\ sessions' = sessions
       /\ last'.hookCalls = <<>> /\ hookLog' = hookLog
       /\ obtained' = obtained]_vars

\* a NULL configuration with a report queued: the report is still there
C39_Witness ==
  /\ last.op = "process_stream" /\ last.arg = <<FALSE, TRUE>>
  /\ last.ret = -EINVAL
  /\ Len(backends[1].queue) = 1
  /\ sessions[E2ESession].last_sequence = last.prev /\ last.prev # -1
  /\ Len(hookLog) = 1

\* a NULL session
C39_WitnessSession ==
  /\ last.op = "process_stream" /\ last.arg = <<TRUE, FALSE>>
  /\ last.ret = -EINVAL /\ backends[1].queue # <<>>

====
